---------------------------- MODULE Spec2Model ----------------------------
(***************************************************************************)
(* A model of the scalar-file parsers, the per-power aggregators and the   *)
(* energy/efficiency models of the OMNeT++/Simu5G analysis scripts:        *)
(*   results.py                              (prefix res_)                 *)
(*   Run_Simulations_Simu5G/run_simulations.py (prefix sim_)               *)
(*   analisar_sca.py                         (prefix ana_)                 *)
(*   calculate.py                            (prefix calc_)                *)
(* Text is modelled character by character: a line, a token and a path are *)
(* TLA+ strings, and every regular expression of the scripts is an         *)
(* operator that matches the way Python's re module does.                  *)
(* A Python float is modelled exactly, as (n/d) * 10^e, or as one of the   *)
(* special values inf, -inf, nan; None is the value "none".                *)
(***************************************************************************)
EXTENDS Integers, Sequences, FiniteSets, TLC

VARIABLES
    lines,        \* parse: the raw lines of the file being read
    res_i,        \* parse: results.py parse_sca_file, lines consumed
    res_out,      \* parse: results.py parse_sca_file, the list `out`
    sim_i,        \* parse: Simu5G parse_sca_file, lines consumed
    sim_scalars,  \* parse: Simu5G parse_sca_file, the list `scalars`
    sim_attrs,    \* parse: Simu5G parse_sca_file, the dict `attrs`
    raised,       \* the exception that left a routine uncaught, or "none"
    script,       \* the script that is running ("" while only parsing)
    pc,           \* the script's position: "read", "group", "energy",
                  \* "done" (or "")
    calc_scn,     \* calculate.py: the Scenario given to compute_dataframe
    calc_df,      \* calculate.py: the rows compute_dataframe returned
    ana_args,     \* analisar_sca.py: compute_power_energy_eff's arguments
    ana_em,       \* analisar_sca.py: the dict compute_power_energy_eff returned
    res_args,     \* results.py: args (num_ues, tsim, powers), EnergyCalib
    res_agg,      \* results.py main: the per-power table `agg` after groupby
    res_table,    \* results.py main: `agg` with the energy columns
    batch,        \* pipeline: the result files found, in path order
    nread,        \* pipeline: the number of files of batch read so far
    res_rows,     \* results.py main: the list `rows`
    res_df,       \* results.py main: `df` after the directory fallback
    sim_rows,     \* Simu5G collect_all_scalars: the list `rows`
    sim_raw_csv,  \* Simu5G analyze_results: the rows of scalars_raw.csv
    sim_metrics,  \* Simu5G analyze_results: the dict `metrics`
    ana_cfg,      \* analisar_sca.py: energy_cfg (<<>>: none given)
    ana_rows,     \* analisar_sca.py process_topology: the list `rows`
    ana_json,     \* analisar_sca.py: the rows of resumo_por_arquivo.json
    ana_table,    \* analisar_sca.py: the rows of resumo_por_potencia.json
    disk,         \* the result files on disk, by expected path
    col_k,        \* collect_results.py: files of the double loop done
    col_ue,       \* collect_results.py: what extract_information returned
    col_gnb,      \* collect_results.py: what extract_gnb_information
                  \* returned
    all_simulation_data,  \* collect_results.py: the list of that name
    agg_values,   \* the values handed to an aggregator
    agg_mean,     \* what the aggregator returned (<<>>: not called yet)
    conv_dbm,     \* the power level handed to dbm_to_watts
    conv_w,       \* what dbm_to_watts returned (<<>>: not called yet)
    run_cfg,      \* run_simulations.py: TX_POWERS, NUM_REPETITIONS,
                  \* NUM_PROCESSES and --skip-sim
    run_level,    \* the position in TX_POWERS of the power being simulated
    run_jobs,     \* the jobs of that power, by repetition
    run_results,  \* the list `results` of that power
    run_sca,      \* the expected .sca files that exist, as <<tx, rep>>
    run_status,   \* status.json by power: the repetitions of its runs
    run_failed,   \* failed_runs.json by power: the repetitions it lists
    run_analysis  \* the roots analyze_results was called with

parseVars == <<lines, res_i, res_out, sim_i, sim_scalars, sim_attrs>>

energyVars == <<script, pc, calc_scn, calc_df, ana_args, ana_em,
                res_args, res_agg, res_table>>

pipeVars == <<batch, nread, res_rows, res_df, sim_rows, sim_raw_csv,
              sim_metrics, ana_cfg, ana_rows, ana_json, ana_table>>

collectVars == <<disk, col_k, col_ue, col_gnb, all_simulation_data>>

aggVars == <<agg_values, agg_mean>>

convVars == <<conv_dbm, conv_w>>

runVars == <<run_cfg, run_level, run_jobs, run_results, run_sca, run_status,
             run_failed, run_analysis>>

vars == <<parseVars, raised, energyVars, pipeVars, collectVars, aggVars,
          convVars, runVars>>

---------------------------------------------------------------------------
(* Characters and strings.                                                 *)

Ch(s, i) == SubSeq(s, i, i)

\* Python's \s (and str.strip's whitespace) over the characters lines hold.
IsSpace(c) == c \in {" ", "\t", "\n", "\r"}

IsDigit(c) == c \in {"0", "1", "2", "3", "4", "5", "6", "7", "8", "9"}

DigitVal(c) ==
    CASE c = "0" -> 0 [] c = "1" -> 1 [] c = "2" -> 2 [] c = "3" -> 3
      [] c = "4" -> 4 [] c = "5" -> 5 [] c = "6" -> 6 [] c = "7" -> 7
      [] c = "8" -> 8 [] c = "9" -> 9

\* s[i:] starts with the literal lit.
StartsWithAt(s, i, lit) ==
    /\ i + Len(lit) - 1 <= Len(s)
    /\ SubSeq(s, i, i + Len(lit) - 1) = lit

\* The first position >= i whose character is not whitespace (Len(s)+1 if none).
RECURSIVE SkipSpace(_, _)
SkipSpace(s, i) ==
    IF i <= Len(s) /\ IsSpace(Ch(s, i)) THEN SkipSpace(s, i + 1) ELSE i

\* The first position >= i whose character is whitespace (Len(s)+1 if none).
RECURSIVE SkipNonSpace(_, _)
SkipNonSpace(s, i) ==
    IF i <= Len(s) /\ ~IsSpace(Ch(s, i)) THEN SkipNonSpace(s, i + 1) ELSE i

\* The first position >= i whose character is not a digit.
RECURSIVE SkipDigits(_, _)
SkipDigits(s, i) ==
    IF i <= Len(s) /\ IsDigit(Ch(s, i)) THEN SkipDigits(s, i + 1) ELSE i

\* The last position <= j whose character is not whitespace (0 if none).
RECURSIVE LastNonSpace(_, _)
LastNonSpace(s, j) ==
    IF j >= 1 /\ IsSpace(Ch(s, j)) THEN LastNonSpace(s, j - 1) ELSE j

\* str.strip()
Strip(s) == SubSeq(s, SkipSpace(s, 1), LastNonSpace(s, Len(s)))

\* str.split(): the blank-separated tokens of s.
RECURSIVE Tokens(_)
Tokens(s) ==
    LET a == SkipSpace(s, 1)
        b == SkipNonSpace(s, a)
    IN  IF a > Len(s) THEN <<>>
        ELSE <<SubSeq(s, a, b - 1)>> \o Tokens(SubSeq(s, b, Len(s)))

\* sub in s
Contains(s, sub) == \E i \in 1..(Len(s) + 1) : StartsWithAt(s, i, sub)

\* s[:j] ends with the literal lit.
EndsWithAt(s, j, lit) ==
    /\ j - Len(lit) >= 0
    /\ SubSeq(s, j - Len(lit) + 1, j) = lit

IsDigitAt(s, i) == i >= 1 /\ i <= Len(s) /\ IsDigit(Ch(s, i))

\* The last position <= j whose character is not a digit (0 if none).
RECURSIVE BackDigits(_, _)
BackDigits(s, j) == IF IsDigitAt(s, j) THEN BackDigits(s, j - 1) ELSE j

RECURSIVE Pow10(_)
Pow10(k) == IF k = 0 THEN 1 ELSE 10 * Pow10(k - 1)

\* int(s) of a string of digits.
RECURSIVE DigitsVal(_)
DigitsVal(s) ==
    IF s = "" THEN 0
    ELSE DigitsVal(SubSeq(s, 1, Len(s) - 1)) * 10 + DigitVal(Ch(s, Len(s)))

\* A string of digits without its leading zeros.
RECURSIVE DropZeros(_)
DropZeros(s) == IF s # "" /\ Ch(s, 1) = "0" THEN DropZeros(Tail(s)) ELSE s

---------------------------------------------------------------------------
(* Python floats: exact rationals and the three special values.            *)

RECURSIVE Gcd(_, _)
Gcd(a, b) == IF b = 0 THEN a ELSE Gcd(b, a % b)

Abs(a) == IF a < 0 THEN -a ELSE a

Min(S) == CHOOSE x \in S : \A y \in S : x <= y
Max(S) == CHOOSE x \in S : \A y \in S : x >= y

\* The finite float (n/d) * 10^e in its one canonical form: n/d in lowest
\* terms, d with no factor 2 or 5, n not a multiple of 10; zero is 0/1 * 10^0.
RECURSIVE FinE(_, _, _)
FinE(n, d, e) ==
    IF n = 0 THEN [k |-> "fin", n |-> 0, d |-> 1, e |-> 0]
    ELSE IF n % 10 = 0 THEN FinE(n \div 10, d, e + 1)
    ELSE IF d % 2 = 0
    THEN (IF n % 2 = 0 THEN FinE(n \div 2, d \div 2, e)
          ELSE FinE(n * 5, d \div 2, e - 1))
    ELSE IF d % 5 = 0
    THEN (IF n % 5 = 0 THEN FinE(n \div 5, d \div 5, e)
          ELSE FinE(n * 2, d \div 5, e - 1))
    ELSE LET g == Gcd(Abs(n), d)
         IN  [k |-> "fin", n |-> n \div g, d |-> d \div g, e |-> e]

Fin(n, d) == FinE(n, d, 0)

PosInf == [k |-> "inf", n |-> 0, d |-> 1, e |-> 0]
NegInf == [k |-> "ninf", n |-> 0, d |-> 1, e |-> 0]
NaN == [k |-> "nan", n |-> 0, d |-> 1, e |-> 0]
None == [k |-> "none", n |-> 0, d |-> 1, e |-> 0]

IsFinite(x) == x.k = "fin"

\* str.lower() over the letters the scripts' patterns and the inputs use.
Lower(c) ==
    LET up == "ABCDEFGHIJKLMNOPQRSTUVWXYZ"
        lo == "abcdefghijklmnopqrstuvwxyz"
    IN  IF \E i \in 1..26 : Ch(up, i) = c
        THEN Ch(lo, CHOOSE i \in 1..26 : Ch(up, i) = c)
        ELSE c

RECURSIVE LowerStr(_)
LowerStr(s) == IF s = "" THEN "" ELSE Lower(Ch(s, 1)) \o LowerStr(Tail(s))

\* -x
FNeg(x) ==
    CASE x.k = "fin" -> FinE(-x.n, x.d, x.e)
      [] x.k = "inf" -> NegInf
      [] x.k = "ninf" -> PosInf
      [] OTHER -> x

\* float() of an unsigned decimal literal with the significant digits mant
\* and the decimal exponent e10.  A literal whose decimal order of magnitude
\* is above 308 is too large for a double and gives inf (the largest double
\* is about 1.8e308); below -324 it gives 0.0.
FloatMagnitude(mant, e10) ==
    IF mant = "" \/ Len(mant) + e10 - 1 < -324 THEN FinE(0, 1, 0)
    ELSE IF Len(mant) + e10 - 1 > 308 THEN PosInf
    ELSE FinE(DigitsVal(mant), 1, e10)

\* The digits of an exponent, from position q to the end of tok; an exponent
\* of more than 4 digits is out of every range and is clipped.
FloatExpDigits(tok, q, expNeg) ==
    IF q <= Len(tok) /\ SkipDigits(tok, q) = Len(tok) + 1
    THEN [ok |-> TRUE,
          exp |-> (IF expNeg THEN -1 ELSE 1)
                    * (IF Len(DropZeros(SubSeq(tok, q, Len(tok)))) > 4
                       THEN 9999 ELSE DigitsVal(SubSeq(tok, q, Len(tok))))]
    ELSE [ok |-> FALSE, exp |-> 0]

\* The optional exponent part at position p, which must end the literal.
FloatExponent(tok, p) ==
    IF p > Len(tok) THEN [ok |-> TRUE, exp |-> 0]
    ELSE IF Ch(tok, p) \notin {"e", "E"} THEN [ok |-> FALSE, exp |-> 0]
    ELSE IF p + 1 <= Len(tok) /\ Ch(tok, p + 1) \in {"+", "-"}
    THEN FloatExpDigits(tok, p + 2, Ch(tok, p + 1) = "-")
    ELSE FloatExpDigits(tok, p + 1, FALSE)

\* The literal with integer digits at i..intEnd-1, fraction digits up to
\* fracEnd-1 (after a point at intEnd, if fracEnd > intEnd) and exponent ex.
FloatDecimal(tok, i, intEnd, fracEnd, ex) ==
    LET intD == SubSeq(tok, i, intEnd - 1)
        fracD == IF fracEnd > intEnd
                 THEN SubSeq(tok, intEnd + 1, fracEnd - 1) ELSE ""
    IN  IF (intD # "" \/ fracD # "") /\ ex.ok
        THEN [ok |-> TRUE,
              v |-> FloatMagnitude(DropZeros(intD \o fracD),
                                   ex.exp - Len(fracD))]
        ELSE [ok |-> FALSE, v |-> NaN]

\* The position after the optional fraction that follows the integer digits.
FloatFracEnd(tok, intEnd) ==
    IF intEnd <= Len(tok) /\ Ch(tok, intEnd) = "."
    THEN SkipDigits(tok, intEnd + 1) ELSE intEnd

FloatFraction(tok, i, intEnd, fracEnd) ==
    FloatDecimal(tok, i, intEnd, fracEnd, FloatExponent(tok, fracEnd))

FloatDigits(tok, i, intEnd) ==
    FloatFraction(tok, i, intEnd, FloatFracEnd(tok, intEnd))

\* float() of the literal without its sign: nan, inf, infinity in any case,
\* or a decimal literal.
FloatUnsigned(tok, i, body) ==
    IF body = "nan" THEN [ok |-> TRUE, v |-> NaN]
    ELSE IF body \in {"inf", "infinity"} THEN [ok |-> TRUE, v |-> PosInf]
    ELSE FloatDigits(tok, i, SkipDigits(tok, i))

FloatSigned(neg, u) == [ok |-> u.ok, v |-> IF neg THEN FNeg(u.v) ELSE u.v]

FloatAt(tok, i) ==
    FloatSigned(tok # "" /\ Ch(tok, 1) = "-",
                FloatUnsigned(tok, i, LowerStr(SubSeq(tok, i, Len(tok)))))

FloatStripped(tok) ==
    FloatAt(tok, IF tok # "" /\ Ch(tok, 1) \in {"+", "-"} THEN 2 ELSE 1)

\* float(tok0): the value, or ok = FALSE when Python raises ValueError.
ParseFloat(tok0) == FloatStripped(Strip(tok0))

Lcm(a, b) == (a \div Gcd(a, b)) * b

Zero == Fin(0, 1)
Int2F(i) == Fin(i, 1)

IsNaN(x) == x.k = "nan"
IsInf(x) == x.k \in {"inf", "ninf"}
IsNone(x) == x.k = "none"

\* -1, 0 or 1; of a nan, 0.
Sign(x) ==
    CASE x.k = "fin" -> (IF x.n > 0 THEN 1 ELSE IF x.n < 0 THEN -1 ELSE 0)
      [] x.k = "inf" -> 1
      [] x.k = "ninf" -> -1
      [] OTHER -> 0

IsZero(x) == x.k = "fin" /\ x.n = 0

\* The number of decimal digits of a > 0.
RECURSIVE NumDigits(_)
NumDigits(a) == IF a < 10 THEN 1 ELSE 1 + NumDigits(a \div 10)

\* a * 10^p < b * 10^q for integers a, b > 0: by the orders of magnitude
\* when they differ, else by the digits.
MagLt(a, p, b, q) ==
    LET da == NumDigits(a) + p
        db == NumDigits(b) + q
    IN  IF da # db THEN da < db
        ELSE IF p >= q THEN a * Pow10(p - q) < b
        ELSE a < b * Pow10(q - p)

\* A result of float arithmetic: a magnitude above the largest double
\* (about 1.797e308, taken here as 1.8e308) is inf or -inf.
Overflow(x) ==
    IF x.k = "fin" /\ x.n # 0 /\ x.e > 280
                   /\ MagLt(18 * x.d, 307, Abs(x.n), x.e)
    THEN (IF x.n > 0 THEN PosInf ELSE NegInf)
    ELSE x

\* x + y
FAdd(x, y) ==
    IF IsNaN(x) \/ IsNaN(y) THEN NaN
    ELSE IF IsInf(x) /\ IsInf(y) THEN (IF x.k = y.k THEN x ELSE NaN)
    ELSE IF IsInf(x) THEN x
    ELSE IF IsInf(y) THEN y
    ELSE IF IsZero(x) THEN y
    ELSE IF IsZero(y) THEN x
    ELSE LET l == Lcm(x.d, y.d)
             m == IF x.e <= y.e THEN x.e ELSE y.e
         IN  Overflow(FinE(x.n * Pow10(x.e - m) * (l \div x.d)
                             + y.n * Pow10(y.e - m) * (l \div y.d), l, m))

FSub(x, y) == FAdd(x, FNeg(y))

\* x * y
FMul(x, y) ==
    IF IsNaN(x) \/ IsNaN(y) THEN NaN
    ELSE IF IsInf(x) \/ IsInf(y)
    THEN (IF Sign(x) * Sign(y) = 0 THEN NaN
          ELSE IF Sign(x) * Sign(y) > 0 THEN PosInf ELSE NegInf)
    ELSE LET g1 == Gcd(Abs(x.n), y.d)
             g2 == Gcd(Abs(y.n), x.d)
         IN  IF x.n = 0 \/ y.n = 0 THEN Zero
             ELSE Overflow(FinE((x.n \div g1) * (y.n \div g2),
                                (x.d \div g2) * (y.d \div g1), x.e + y.e))

\* x / y for y # 0.0
FDiv(x, y) ==
    IF IsNaN(x) \/ IsNaN(y) THEN NaN
    ELSE IF IsInf(y) THEN (IF IsInf(x) THEN NaN ELSE Zero)
    ELSE FMul(x, IF y.n > 0 THEN FinE(y.d, y.n, -y.e)
                 ELSE FinE(-y.d, -y.n, -y.e))

\* Python's x / y on floats: ZeroDivisionError (ok = FALSE) when y is 0.0.
PyDiv(x, y) ==
    IF IsZero(y) THEN [ok |-> FALSE, v |-> NaN]
    ELSE [ok |-> TRUE, v |-> FDiv(x, y)]

\* numpy/pandas x / y on float columns: a zero divisor gives inf, -inf or nan.
NpDiv(x, y) ==
    IF IsZero(y)
    THEN (IF IsNaN(x) \/ Sign(x) = 0 THEN NaN
          ELSE IF Sign(x) > 0 THEN PosInf ELSE NegInf)
    ELSE FDiv(x, y)

\* x < y on floats (False when either is nan).
FLt(x, y) ==
    IF IsNaN(x) \/ IsNaN(y) THEN FALSE
    ELSE IF x.k = "ninf" THEN y.k # "ninf"
    ELSE IF y.k = "inf" THEN x.k # "inf"
    ELSE IF x.k = "inf" \/ y.k = "ninf" THEN FALSE
    ELSE IF Sign(x) # Sign(y) THEN Sign(x) < Sign(y)
    ELSE IF Sign(x) = 0 THEN FALSE
    ELSE IF Sign(x) > 0 THEN MagLt(x.n * y.d, x.e, y.n * x.d, y.e)
    ELSE MagLt(-y.n * x.d, y.e, -x.n * y.d, x.e)

\* max(a, b) and min(a, b) of Python: b only if b > a (b < a).
PyMax(a, b) == IF FLt(a, b) THEN b ELSE a
PyMin(a, b) == IF FLt(b, a) THEN b ELSE a

\* float(x or 0.0): None and 0 are falsy.
FloatOr0(x) == IF IsNone(x) \/ IsZero(x) THEN Zero ELSE x

\* 10 ** (j/10) for j = 1..9, in thousandths, to four significant digits.
Pow10Tenths == <<1259, 1585, 1995, 2512, 3162, 3981, 5012, 6310, 7943>>

\* 10 ** q.  Exact for whole q, to four significant digits for q in tenths,
\* and 26 * 10^k for q = k + log10(26) = k + 1.4149733; 10 ** inf is inf,
\* 10 ** -inf is 0.0.
Pow10F(q) ==
    CASE q.k = "nan" -> NaN
      [] q.k = "inf" -> PosInf
      [] q.k = "ninf" -> Zero
      [] q.k = "fin" /\ q.d = 1 /\ q.e >= 0 -> FinE(1, 1, q.n * Pow10(q.e))
      [] q.k = "fin" /\ q.d = 1 /\ q.e = -1
           -> FinE(Pow10Tenths[q.n % 10], 1, (q.n \div 10) - 3)
      [] q.k = "fin" /\ q.d = 1 /\ q.e = -7
                     /\ (q.n - 14149733) % 10000000 = 0
           -> FinE(26, 1, (q.n - 14149733) \div 10000000)

---------------------------------------------------------------------------
(* Python dicts with string keys: a sequence of <<key, value>> pairs in    *)
(* insertion order, each key once.                                         *)

DictHas(d, key) == \E i \in 1..Len(d) : d[i][1] = key

DictGet(d, key, default) ==
    IF DictHas(d, key)
    THEN d[CHOOSE i \in 1..Len(d) : d[i][1] = key][2]
    ELSE default

DictSet(d, key, val) ==
    IF DictHas(d, key)
    THEN [i \in 1..Len(d) |-> IF d[i][1] = key THEN <<key, val>> ELSE d[i]]
    ELSE Append(d, <<key, val>>)

---------------------------------------------------------------------------
(* results.py: the scalar-line pattern and parse_sca_file.                 *)

\* [-\d.eE]
res_IsValueChar(c) == IsDigit(c) \/ c \in {"-", ".", "e", "E"}

RECURSIVE res_SkipValueChars(_, _)
res_SkipValueChars(s, i) ==
    IF i <= Len(s) /\ res_IsValueChar(Ch(s, i))
    THEN res_SkipValueChars(s, i + 1) ELSE i

\* SCALAR_LINE.match(s):
\*   ^scalar\s+([^\s]+)\s+([^\s]+)\s+([-\d.eE]+)(?:\s+(\S+))?
\* Every quantifier is greedy and is followed by a character of the other
\* class, so the match is the one without backtracking.  unit is <<>> for a
\* group that did not take part (None), else <<token>>.
res_SCALAR_LINE(s) ==
    LET w1 == SkipSpace(s, 7)
        m1 == SkipNonSpace(s, w1)
        w2 == SkipSpace(s, m1)
        n1 == SkipNonSpace(s, w2)
        w3 == SkipSpace(s, n1)
        v1 == res_SkipValueChars(s, w3)
        u0 == SkipSpace(s, v1)
        u1 == SkipNonSpace(s, u0)
        ok == /\ StartsWithAt(s, 1, "scalar")
              /\ w1 > 7 /\ m1 > w1 /\ w2 > m1 /\ n1 > w2 /\ w3 > n1 /\ v1 > w3
    IN  IF ok
        THEN [ok |-> TRUE,
              module |-> SubSeq(s, w1, m1 - 1),
              name |-> SubSeq(s, w2, n1 - 1),
              value |-> SubSeq(s, w3, v1 - 1),
              unit |-> IF u0 > v1 /\ u1 > u0
                       THEN <<SubSeq(s, u0, u1 - 1)>> ELSE <<>>]
        ELSE [ok |-> FALSE, module |-> "", name |-> "", value |-> "",
              unit |-> <<>>]

\* parse_sca_file, line 65: the record of the match m with the value v.
res_append(out, m, v) ==
    Append(out, [module |-> m.module, name |-> m.name, value |-> v,
                 unit |-> m.unit])

\* A variant of lines 60-65 without the try/except around float().
res_matched_line_uncaught(out, m, f) ==
    IF ~f.ok THEN [out |-> out, raised |-> "ValueError"]
    ELSE [out |-> res_append(out, m, f.v), raised |-> "none"]

\* parse_sca_file, lines 60-65, m the match of SCALAR_LINE and f the outcome
\* of float(value): a ValueError is caught and the line skipped.
res_matched_line(out, m, f) ==
    IF ~f.ok THEN [out |-> out, raised |-> "none"]
    ELSE [out |-> res_append(out, m, f.v), raised |-> "none"]

\* parse_sca_file, lines 57-65, m the outcome of SCALAR_LINE.match.
res_match_line(out, m) ==
    IF ~m.ok THEN [out |-> out, raised |-> "none"]
    ELSE res_matched_line(out, m, ParseFloat(m.value))

\* One iteration of the loop of parse_sca_file over the raw line `line`:
\* the list `out` after it and the exception it leaves uncaught ("none": no
\* exception).
res_parse_line(out, line) ==
    IF ~StartsWithAt(line, 1, "scalar")
    THEN [out |-> out, raised |-> "none"]
    ELSE res_match_line(out, res_SCALAR_LINE(Strip(line)))

RECURSIVE res_parse_lines(_, _)
res_parse_lines(out, ls) ==
    IF ls = <<>> THEN out
    ELSE res_parse_lines(res_parse_line(out, Head(ls)).out, Tail(ls))

\* parse_sca_file(path), path holding the lines ls.
res_parse_sca_file(ls) == res_parse_lines(<<>>, ls)

---------------------------------------------------------------------------
(* Run_Simulations_Simu5G/run_simulations.py: _S_ATTR, _S_SCALAR, _unquote *)
(* and parse_sca_file.                                                     *)

\* _S_ATTR.match(s), s stripped:  ^attr\s+(\S+)\s+(.+)$
sim_S_ATTR(s) ==
    LET w1 == SkipSpace(s, 5)
        k1 == SkipNonSpace(s, w1)
        w2 == SkipSpace(s, k1)
        ok == /\ StartsWithAt(s, 1, "attr")
              /\ w1 > 5 /\ k1 > w1 /\ w2 > k1 /\ w2 <= Len(s)
    IN  IF ok
        THEN [ok |-> TRUE, key |-> SubSeq(s, w1, k1 - 1),
              val |-> SubSeq(s, w2, Len(s))]
        ELSE [ok |-> FALSE, key |-> "", val |-> ""]

\* [+-]?\d+(?:\.\d+)?(?:[eE][+-]?\d+)? at position i: the position after the
\* longest match, or 0 when there is none.
sim_NumberEnd(s, i) ==
    LET p == IF i <= Len(s) /\ Ch(s, i) \in {"+", "-"} THEN i + 1 ELSE i
        d1 == SkipDigits(s, p)
        f0 == SkipDigits(s, d1 + 1)
        f1 == IF d1 <= Len(s) /\ Ch(s, d1) = "." /\ f0 > d1 + 1
              THEN f0 ELSE d1
        q == IF f1 + 1 <= Len(s) /\ Ch(s, f1 + 1) \in {"+", "-"}
             THEN f1 + 2 ELSE f1 + 1
        g0 == SkipDigits(s, q)
        g1 == IF f1 <= Len(s) /\ Ch(s, f1) \in {"e", "E"} /\ g0 > q
              THEN g0 ELSE f1
    IN  IF d1 > p THEN g1 ELSE 0

\* (".*?"|\S+) at position i, followed by \s+: the positions after the token,
\* in the order the matcher tries them.  The quoted alternative comes first,
\* lazily (the nearest closing quote first); then \S+, greedily, for which
\* only the whole run of non-blank characters can be followed by a blank.
sim_QuotedEnds(s, i) ==
    IF i <= Len(s) /\ Ch(s, i) = "\""
    THEN {j + 1 : j \in {x \in (i + 1)..Len(s) :
                           /\ Ch(s, x) = "\""
                           /\ x + 1 <= Len(s) /\ IsSpace(Ch(s, x + 1))}}
    ELSE {}

sim_RunEnds(s, i) ==
    LET e == SkipNonSpace(s, i)
    IN  IF e > i /\ e <= Len(s) THEN {e} ELSE {}

\* The first of the token ends, in the matcher's order, that is one of the
\* ends `good` from which the rest of the pattern matches; 0 when none is.
sim_FirstEnd(s, i, good) ==
    LET q == sim_QuotedEnds(s, i) \cap good
        r == sim_RunEnds(s, i) \cap good
    IN  IF q # {} THEN Min(q) ELSE IF r # {} THEN Min(r) ELSE 0

\* _S_SCALAR.match(s), s stripped:
\*   ^scalar\s+(".*?"|\S+)\s+(".*?"|\S+)\s+([+-]?\d+(?:\.\d+)?(?:[eE][+-]?\d+)?)
sim_S_SCALAR(s) ==
    LET w1 == SkipSpace(s, 7)
        numAt == {e \in 1..(Len(s) + 1) :
                    sim_NumberEnd(s, SkipSpace(s, e)) > 0}
        nameAt == {e \in 1..(Len(s) + 1) :
                     sim_FirstEnd(s, SkipSpace(s, e), numAt) > 0}
        m1 == sim_FirstEnd(s, w1, nameAt)
        w2 == SkipSpace(s, m1)
        n1 == sim_FirstEnd(s, w2, numAt)
        w3 == SkipSpace(s, n1)
        ok == StartsWithAt(s, 1, "scalar") /\ w1 > 7 /\ m1 > 0
    IN  IF ok
        THEN [ok |-> TRUE,
              module |-> SubSeq(s, w1, m1 - 1),
              name |-> SubSeq(s, w2, n1 - 1),
              value |-> SubSeq(s, w3, sim_NumberEnd(s, w3) - 1)]
        ELSE [ok |-> FALSE, module |-> "", name |-> "", value |-> ""]

\* A variant of _unquote that takes any two quote characters for a pair.
sim_unquote_any_pair(s0) ==
    LET s == Strip(s0)
    IN  IF Len(s) >= 2 /\ Ch(s, 1) \in {"\"", "'"}
                      /\ Ch(s, Len(s)) \in {"\"", "'"}
        THEN SubSeq(s, 2, Len(s) - 1)
        ELSE s

\* _unquote(s)
sim_unquote(s0) ==
    LET s == Strip(s0)
    IN  IF Len(s) >= 2 /\ Ch(s, 1) \in {"\"", "'"} /\ Ch(s, Len(s)) = Ch(s, 1)
        THEN SubSeq(s, 2, Len(s) - 1)
        ELSE s

\* parse_sca_file, lines 182-188: the record of a matched scalar line is
\* appended; float() of the matched literal f never fails, and a ValueError
\* would be caught and give nan.
sim_append_scalar(scalars, attrs, ms, f) ==
    [scalars |-> Append(scalars, [module |-> sim_unquote(ms.module),
                                  name |-> sim_unquote(ms.name),
                                  value |-> IF f.ok THEN f.v ELSE NaN]),
     attrs |-> attrs, raised |-> "none"]

\* parse_sca_file, lines 180-188, ms the match of _S_SCALAR.
sim_scalar_line(scalars, attrs, ms) ==
    IF ms.ok THEN sim_append_scalar(scalars, attrs, ms, ParseFloat(ms.value))
    ELSE [scalars |-> scalars, attrs |-> attrs, raised |-> "none"]

\* parse_sca_file, lines 175-188, ma the match of _S_ATTR.
sim_attr_line(scalars, attrs, line, ma) ==
    IF ma.ok
    THEN [scalars |-> scalars,
          attrs |-> DictSet(attrs, ma.key, sim_unquote(ma.val)),
          raised |-> "none"]
    ELSE sim_scalar_line(scalars, attrs, sim_S_SCALAR(line))

\* parse_sca_file, lines 173-188, line the stripped line.
sim_stripped_line(scalars, attrs, line) ==
    IF line = ""
    THEN [scalars |-> scalars, attrs |-> attrs, raised |-> "none"]
    ELSE sim_attr_line(scalars, attrs, line, sim_S_ATTR(line))

\* One iteration of the loop of parse_sca_file over the raw line `raw`: the
\* list `scalars`, the dict `attrs` and the exception left uncaught.
sim_parse_line(scalars, attrs, raw) ==
    sim_stripped_line(scalars, attrs, Strip(raw))

RECURSIVE sim_parse_lines(_, _, _)
sim_parse_lines(scalars, attrs, ls) ==
    IF ls = <<>> THEN [scalars |-> scalars, attrs |-> attrs]
    ELSE LET r == sim_parse_line(scalars, attrs, Head(ls))
         IN  sim_parse_lines(r.scalars, r.attrs, Tail(ls))

\* parse_sca_file(path), path holding the lines ls: (df, attrs).
sim_parse_sca_file(ls) == sim_parse_lines(<<>>, <<>>, ls)

---------------------------------------------------------------------------
(* Sorting (DataFrame.sort_values, sorted): a stable insertion sort of the *)
(* positions 1..Len(keys) by their float keys.                             *)

\* perm, sorted by key, with position i inserted after the keys not above it.
RECURSIVE InsertPos(_, _, _)
InsertPos(i, perm, keys) ==
    IF perm = <<>> THEN <<i>>
    ELSE IF FLt(keys[i], keys[Head(perm)]) THEN <<i>> \o perm
    ELSE <<Head(perm)>> \o InsertPos(i, Tail(perm), keys)

RECURSIVE SortPerm(_, _)
SortPerm(n, keys) ==
    IF n = 0 THEN <<>> ELSE InsertPos(n, SortPerm(n - 1, keys), keys)

\* rows in the order of their keys.
SortByKeys(rows, keys) ==
    LET perm == SortPerm(Len(rows), keys)
    IN  [i \in 1..Len(rows) |-> rows[perm[i]]]

---------------------------------------------------------------------------
(* calculate.py: Scenario, energy_components, compute_dataframe.           *)

\* A variant of dbm_to_watts without the milliwatt factor.
calc_dbm_to_watts_milliwatts(dbm) == Pow10F(FDiv(dbm, Int2F(10)))

\* 10 ** (dbm/10) * 1e-3
calc_dbm_to_watts(dbm) == FMul(Pow10F(FDiv(dbm, Int2F(10))), Fin(1, 1000))

\* Scenario.uses_extended
calc_uses_extended(scn) ==
    \A v \in {scn.Pidle_base, scn.k_idle, scn.alpha_base, scn.k_alpha,
              scn.beta_base, scn.k_beta} : ~IsNone(v)

\* energy_components, lines 84-89: the components from the resolved
\* coefficients.
calc_components(scn, P_tx, Pidle, alpha, beta) ==
    [P_tx_W |-> P_tx, P_idle |-> Pidle,
     P_proc |-> FMul(alpha, scn.D_proc),
     P_ue |-> FMul(beta, scn.N_UE),
     P_tx |-> FMul(scn.gamma, P_tx),
     P_gnb |-> FAdd(FAdd(FAdd(Pidle, FMul(alpha, scn.D_proc)),
                         FMul(beta, scn.N_UE)),
                    FMul(scn.gamma, P_tx))]

\* energy_components, lines 77-89, P_tx the watts of p_dbm.
calc_resolve(scn, P_tx) ==
    IF calc_uses_extended(scn)
    THEN calc_components(scn, P_tx,
                         FAdd(scn.Pidle_base, FMul(scn.k_idle, P_tx)),
                         FAdd(scn.alpha_base, FMul(scn.k_alpha, P_tx)),
                         FAdd(scn.beta_base, FMul(scn.k_beta, P_tx)))
    ELSE calc_components(scn, P_tx, scn.P_idle, scn.alpha, scn.beta)

\* energy_components(scn, p_dbm)
calc_energy_components(scn, p_dbm) ==
    calc_resolve(scn, calc_dbm_to_watts(p_dbm))

\* compute_dataframe, lines 95-111: the row from the components, or the
\* exception of throughput_bits / comps["P_gnb"].
calc_row_of(scn, p_dbm, th_mbps, comps, eff) ==
    [raised |-> IF eff.ok THEN "none" ELSE "ZeroDivisionError",
     row |-> [p_dbm |-> p_dbm, P_tx_W |-> comps.P_tx_W,
              P_idle |-> comps.P_idle, P_proc |-> comps.P_proc,
              P_ue |-> comps.P_ue, P_TxComp |-> comps.P_tx,
              P_gNB |-> comps.P_gnb,
              Energia |-> FMul(comps.P_gnb, scn.T_sim),
              Throughput |-> th_mbps, Eficiencia |-> eff.v]]

calc_row_eff(scn, p_dbm, th_mbps, comps) ==
    calc_row_of(scn, p_dbm, th_mbps, comps,
                PyDiv(FMul(th_mbps, Int2F(1000000)), comps.P_gnb))

\* One iteration of compute_dataframe's loop.
calc_row(scn, p_dbm, th_mbps) ==
    calc_row_eff(scn, p_dbm, th_mbps, calc_energy_components(scn, p_dbm))

\* compute_dataframe, lines 113-114: the rows rs in the order of their power,
\* or the first exception of the loop.
calc_sorted(scn, rs) ==
    IF \E i \in 1..Len(rs) : rs[i].raised # "none"
    THEN [raised |-> rs[Min({i \in 1..Len(rs) : rs[i].raised # "none"})].raised,
          df |-> <<>>]
    ELSE [raised |-> "none",
          df |-> SortByKeys([i \in 1..Len(rs) |-> rs[i].row],
                            [i \in 1..Len(rs) |-> scn.potencias_dbm[i]])]

\* compute_dataframe, the loop over zip(potencias_dbm, throughput_mbps).
calc_rows(scn, n) ==
    calc_sorted(scn, [i \in 1..n |-> calc_row(scn, scn.potencias_dbm[i],
                                              scn.throughput_mbps[i])])

\* compute_dataframe(scn): the rows sorted by power, or the exception.
calc_compute_dataframe(scn) ==
    calc_rows(scn, IF Len(scn.potencias_dbm) <= Len(scn.throughput_mbps)
                   THEN Len(scn.potencias_dbm) ELSE Len(scn.throughput_mbps))

---------------------------------------------------------------------------
(* analisar_sca.py: dbm_to_watts, compute_power_energy_eff.                *)

\* A variant of dbm_to_watts that gives the watts of the reference power.
ana_dbm_to_watts_reference(p_dbm) == Pow10F(FSub(p_dbm, p_dbm))

\* 10 ** ((float(p_dbm) - 30.0) / 10.0)
ana_dbm_to_watts(p_dbm) == Pow10F(FDiv(FSub(p_dbm, Int2F(30)), Int2F(10)))

\* A variant of compute_power_energy_eff that takes the energy from the
\* power before the limits are applied.
ana_compute_power_energy_eff_unclamped_energy(power_dbm, proc_sum_gops, ue_active_mean, thp_sum_mbps, cfg) ==
    LET g == cfg.general
        P_idle == DictGet(g, "idle_power_w", Zero)
        alpha == DictGet(g, "alpha", Zero)
        beta == DictGet(g, "beta", Zero)
        gamma == DictGet(g, "gamma", Zero)
        T_sim == DictGet(g, "sim_time_s", Int2F(20))
        P_tx_W == ana_dbm_to_watts(FloatOr0(power_dbm))
        P0 == FAdd(FAdd(FAdd(P_idle, FMul(alpha, FloatOr0(proc_sum_gops))),
                        FMul(beta, FloatOr0(ue_active_mean))),
                   FMul(gamma, P_tx_W))
        limits == cfg.limits
        P1 == IF DictHas(limits, "min_power_w")
              THEN PyMax(P0, DictGet(limits, "min_power_w", Zero)) ELSE P0
        P_tot_W == IF DictHas(limits, "max_power_w")
                   THEN PyMin(P1, DictGet(limits, "max_power_w", Zero)) ELSE P1
        E_tot_J == FMul(P0, T_sim)
    IN  [P_tot_W |-> P_tot_W,
         E_tot_J |-> E_tot_J,
         E_tot_kWh |-> FDiv(E_tot_J, Int2F(3600000)),
         eff_mbps_per_joule |->
             FDiv(FloatOr0(thp_sum_mbps), PyMax(P_tot_W, FinE(1, 1, -12))),
         P_tx_W |-> P_tx_W,
         sim_time_s |-> T_sim]

\* compute_power_energy_eff(power_dbm, proc_sum_gops, ue_active_mean,
\* thp_sum_mbps, cfg); cfg is [general |-> dict, limits |-> dict].
ana_compute_power_energy_eff(power_dbm, proc_sum_gops, ue_active_mean, thp_sum_mbps, cfg) ==
    LET g == cfg.general
        P_idle == DictGet(g, "idle_power_w", Zero)
        alpha == DictGet(g, "alpha", Zero)
        beta == DictGet(g, "beta", Zero)
        gamma == DictGet(g, "gamma", Zero)
        T_sim == DictGet(g, "sim_time_s", Int2F(20))
        P_tx_W == ana_dbm_to_watts(FloatOr0(power_dbm))
        P0 == FAdd(FAdd(FAdd(P_idle, FMul(alpha, FloatOr0(proc_sum_gops))),
                        FMul(beta, FloatOr0(ue_active_mean))),
                   FMul(gamma, P_tx_W))
        limits == cfg.limits
        P1 == IF DictHas(limits, "min_power_w")
              THEN PyMax(P0, DictGet(limits, "min_power_w", Zero)) ELSE P0
        P_tot_W == IF DictHas(limits, "max_power_w")
                   THEN PyMin(P1, DictGet(limits, "max_power_w", Zero)) ELSE P1
        E_tot_J == FMul(P_tot_W, T_sim)
    IN  [P_tot_W |-> P_tot_W,
         E_tot_J |-> E_tot_J,
         E_tot_kWh |-> FDiv(E_tot_J, Int2F(3600000)),
         eff_mbps_per_joule |->
             FDiv(FloatOr0(thp_sum_mbps), PyMax(P_tot_W, FinE(1, 1, -12))),
         P_tx_W |-> P_tx_W,
         sim_time_s |-> T_sim]

---------------------------------------------------------------------------
(* results.py: EnergyCalib, dbm_to_watts, gnb_power_energy and the rows of *)
(* main's energy loop.                                                     *)

\* 10 ** (dbm / 10.0) * 1e-3
res_dbm_to_watts(dbm) == FMul(Pow10F(FDiv(dbm, Int2F(10))), Fin(1, 1000))

\* gnb_power_energy(ptx_dbm, dproc_gops, n_ues, tsim, calib): (P_avg, E_tot)
res_gnb_power_energy(ptx_dbm, dproc_gops, n_ues, tsim, calib) ==
    LET ptx_w == res_dbm_to_watts(ptx_dbm)
        P_idle == FAdd(calib.P_idle_base, FMul(calib.k_idle, ptx_w))
        alpha == FAdd(calib.alpha_base, FMul(calib.k_alpha, ptx_w))
        beta == FAdd(calib.beta_base, FMul(calib.k_beta, ptx_w))
        P_avg == FAdd(FAdd(P_idle, FMul(alpha, dproc_gops)), FMul(beta, n_ues))
    IN  <<P_avg, FMul(P_avg, tsim)>>

\* main, the energy loop and the efficiency column for one row r of agg
\* (power_dbm, throughput, sinr, cn_procdemand; a missing mean is nan).
res_energy_row(r, args) ==
    LET dproc == IF ~IsNaN(r.cn_procdemand) THEN r.cn_procdemand ELSE Zero
        pe == res_gnb_power_energy(r.power_dbm, dproc, args.num_ues,
                                   args.tsim, args.calib)
    IN  [power_dbm |-> r.power_dbm, throughput |-> r.throughput,
         sinr |-> r.sinr, cn_procdemand |-> r.cn_procdemand,
         Pavg_gNB_W |-> pe[1], E_total_J |-> pe[2],
         EE_throughput_per_J |-> NpDiv(r.throughput, pe[2])]

---------------------------------------------------------------------------
(* Lists of floats: sum, the finite and the present values, pandas' mean   *)
(* and sum of a group, statistics.median, round.                           *)

RECURSIVE SeqSum(_)
SeqSum(vals) ==
    IF vals = <<>> THEN Zero
    ELSE FAdd(SeqSum(SubSeq(vals, 1, Len(vals) - 1)), vals[Len(vals)])

\* pandas: a value that is not missing (None becomes nan in a float column).
NotNa(x) == ~IsNaN(x) /\ ~IsNone(x)

\* None as the nan of a float column.
ToNaN(x) == IF IsNone(x) THEN NaN ELSE x

\* Series.mean(): the mean of the values that are not missing, nan if none.
PdMean(vals) ==
    IF SelectSeq(vals, NotNa) = <<>> THEN NaN
    ELSE FDiv(SeqSum(SelectSeq(vals, NotNa)),
              Int2F(Len(SelectSeq(vals, NotNa))))

\* Series.sum(): the sum of the values that are not missing.
PdSum(vals) == SeqSum(SelectSeq(vals, NotNa))

\* The distinct values of keys, in the order of their first occurrence.
RECURSIVE Distinct(_)
Distinct(keys) ==
    IF keys = <<>> THEN <<>>
    ELSE IF \E i \in 1..(Len(keys) - 1) : keys[i] = keys[Len(keys)]
    THEN Distinct(SubSeq(keys, 1, Len(keys) - 1))
    ELSE Append(Distinct(SubSeq(keys, 1, Len(keys) - 1)), keys[Len(keys)])

\* The keys of a groupby (or of a dict, sorted): the distinct keys that are
\* not missing, ascending.
GroupKeys(keys) ==
    SortByKeys(Distinct(SelectSeq(keys, NotNa)),
               Distinct(SelectSeq(keys, NotNa)))

\* The integer floor(num / den) rounded half to even, den > 0.
RoundHalfEvenDiv(num, den) ==
    IF 2 * (num % den) < den THEN num \div den
    ELSE IF 2 * (num % den) > den THEN (num \div den) + 1
    ELSE IF (num \div den) % 2 = 0 THEN num \div den
    ELSE (num \div den) + 1

\* int(round(x)) of a finite float.
PyRound(x) ==
    IF x.e >= 0 THEN RoundHalfEvenDiv(x.n * Pow10(x.e), x.d)
    ELSE RoundHalfEvenDiv(x.n, x.d * Pow10(-x.e))

\* statistics.median of a sorted non-empty list.
MedianSorted(sv) ==
    IF Len(sv) % 2 = 1 THEN sv[(Len(sv) + 1) \div 2]
    ELSE FDiv(FAdd(sv[Len(sv) \div 2], sv[(Len(sv) \div 2) + 1]), Int2F(2))

\* statistics.median(vals), vals finite and non-empty.
Median(vals) == MedianSorted(SortByKeys(vals, vals))

---------------------------------------------------------------------------
(* results.py: agg_metric, watts_to_dbm, infer_power_dbm and the steps of  *)
(* main before the energy loop.  A file is [dir, name, lines]; its path is *)
(* dir/name.                                                               *)

PathOf(f) == f.dir \o "/" \o f.name

res_ALIASES_throughput ==
    <<"ReceivedThroughput", "receivedThroughput", "throughput",
      "ueThroughput", "avgThroughput", "cellThroughput", "app.rxThroughput">>

res_ALIASES_sinr ==
    <<"SINR", "avgSINR", "meanSINR", "phy.sinr", "gNB_sinr", "ueSINR",
      "rsrpSinr">>

res_ALIASES_cn_procdemand ==
    <<"CNProcDemand", "CnProcDemand", "cnProcDemand", "coreProcDemand",
      "procDemand">>

res_ALIASES_tx_power ==
    <<"eNodeBTxPower", "gNBTxPower", "txPower", "phy.txPower", "eNBtxPower">>

\* A variant of the test of agg_metric that takes equal names alone.
res_name_matches_equal(n, cand) == \E j \in 1..Len(cand) : n = cand[j]

\* agg_metric, line 73: n in cand or any(c in n for c in cand)
res_name_matches(n, cand) == \E j \in 1..Len(cand) : Contains(n, cand[j])

\* agg_metric, lines 70-74: the values of the records whose lowered name
\* holds a candidate.
res_metric_vals(records, cand) ==
    [i \in 1..Len(SelectSeq(records, LAMBDA r : res_name_matches(LowerStr(r.name), cand)))
       |-> SelectSeq(records, LAMBDA r : res_name_matches(LowerStr(r.name), cand))[i].value]

\* agg_metric, lines 75-77
res_mean_or_none(vals) ==
    IF vals = <<>> THEN None ELSE FDiv(SeqSum(vals), Int2F(Len(vals)))

\* agg_metric(records, candidates)
res_agg_metric(records, candidates) ==
    res_mean_or_none(
        res_metric_vals(records,
                        [j \in 1..Len(candidates) |-> LowerStr(candidates[j])]))

\* 10.0 * math.log10(x) for x = 10^k, and for x = 26 * 10^k to six decimal
\* places (10 * log10(26) = 14.149733...); the logarithm of another finite x
\* has no value here.
TenLog10(x) ==
    CASE x.k = "inf" -> PosInf
      [] x.k = "nan" -> NaN
      [] x.k = "fin" /\ x.n = 1 /\ x.d = 1 -> Int2F(10 * x.e)
      [] x.k = "fin" /\ x.n = 26 /\ x.d = 1 ->
            FinE(10000000 * x.e + 14149733, 1, -6)

\* watts_to_dbm(w)
res_watts_to_dbm(w) ==
    TenLog10(FDiv(PyMax(w, FinE(1, 1, -12)), FinE(1, 1, -3)))

\* (?:Pot|Potencia|Power) followed by a digit at position i of the lowered
\* text l: the position of the digit, or 0.
res_PotAt(l, i) ==
    IF StartsWithAt(l, i, "pot") /\ IsDigitAt(l, i + 3) THEN i + 3
    ELSE IF StartsWithAt(l, i, "potencia") /\ IsDigitAt(l, i + 8) THEN i + 8
    ELSE IF StartsWithAt(l, i, "power") /\ IsDigitAt(l, i + 5) THEN i + 5
    ELSE 0

\* The group (\d{1,2}) at position d.
res_PotDigits(l, d) ==
    IF IsDigitAt(l, d + 1) THEN SubSeq(l, d, d + 1) ELSE SubSeq(l, d, d)

\* The leftmost match among the start positions starts of the lowered text.
res_PotFirst(l, starts) ==
    IF starts = {} THEN [ok |-> FALSE, group |-> ""]
    ELSE [ok |-> TRUE, group |-> res_PotDigits(l, res_PotAt(l, Min(starts)))]

\* REGEX_POT_IN_PATH.search(text): (?:Pot|Potencia|Power)(\d{1,2}), IGNORECASE
res_REGEX_POT_IN_PATH(text) ==
    res_PotFirst(LowerStr(text),
                 {i \in 1..Len(text) : res_PotAt(LowerStr(text), i) > 0})

\* infer_power_dbm, lines 91-97: the power in the path, m the match.
res_power_of_match(m) ==
    IF m.ok THEN Int2F(DigitsVal(m.group)) ELSE None

\* infer_power_dbm, lines 85-97, tx the mean of the transmit-power scalars.
res_power_of_tx(path, tx) ==
    IF ~IsNone(tx)
    THEN (IF FLt(Int2F(1), tx) THEN res_watts_to_dbm(tx) ELSE tx)
    ELSE res_power_of_match(res_REGEX_POT_IN_PATH(path))

\* infer_power_dbm(path, records)
res_infer_power_dbm(path, records) ==
    res_power_of_tx(path, res_agg_metric(records, res_ALIASES_tx_power))

\* main, lines 168-173: the row of the file f with the records recs.
res_row(f, recs) ==
    [path |-> PathOf(f),
     power_dbm |-> res_infer_power_dbm(PathOf(f), recs),
     throughput |-> res_agg_metric(recs, res_ALIASES_throughput),
     sinr |-> res_agg_metric(recs, res_ALIASES_sinr),
     cn_procdemand |-> res_agg_metric(recs, res_ALIASES_cn_procdemand)]

\* main, lines 175-184 for one row: None is nan in df, and a row without
\* power takes the power in the name of its directory.
res_dir_fallback(f, r) ==
    [path |-> r.path,
     power_dbm |-> IF NotNa(r.power_dbm) THEN r.power_dbm
                   ELSE ToNaN(res_power_of_match(res_REGEX_POT_IN_PATH(f.dir))),
     throughput |-> ToNaN(r.throughput),
     sinr |-> ToNaN(r.sinr),
     cn_procdemand |-> ToNaN(r.cn_procdemand)]

\* df["power_dbm"].isin(powers)
res_isin(x, powers) == \E j \in 1..Len(powers) : powers[j] = x /\ NotNa(x)

\* main, lines 187-188: the rows with an expected power, if any is given.
res_expected(df, powers) ==
    IF powers # <<>> THEN SelectSeq(df, LAMBDA r : res_isin(r.power_dbm, powers))
    ELSE df

\* The rows of df with the power key.
res_group(df, key) == SelectSeq(df, LAMBDA r : r.power_dbm = key)

\* main, lines 191-195: one row per power with the means of the metrics.
res_groupby(df, keys) ==
    [i \in 1..Len(keys) |->
       [power_dbm |-> keys[i],
        throughput |->
            PdMean([j \in 1..Len(res_group(df, keys[i])) |->
                      res_group(df, keys[i])[j].throughput]),
        sinr |->
            PdMean([j \in 1..Len(res_group(df, keys[i])) |->
                      res_group(df, keys[i])[j].sinr]),
        cn_procdemand |->
            PdMean([j \in 1..Len(res_group(df, keys[i])) |->
                      res_group(df, keys[i])[j].cn_procdemand])]]

\* main, lines 187-195: agg.
res_aggregate(df, powers) ==
    res_groupby(res_expected(df, powers),
                GroupKeys([i \in 1..Len(res_expected(df, powers)) |->
                             res_expected(df, powers)[i].power_dbm]))

---------------------------------------------------------------------------
(* Run_Simulations_Simu5G/run_simulations.py: potencia_from_filename,       *)
(* collect_all_scalars, summarize_metrics.                                 *)

\* re.search(lit + r"(\d+)", text): the digits after the leftmost lit that a
\* digit follows, "" when there is none.
sim_search_digits(text, lit, starts) ==
    IF starts = {} THEN ""
    ELSE SubSeq(text, Min(starts) + Len(lit),
                SkipDigits(text, Min(starts) + Len(lit)) - 1)

sim_search(text, lit) ==
    sim_search_digits(text, lit,
        {i \in 1..Len(text) :
            StartsWithAt(text, i, lit) /\ IsDigitAt(text, i + Len(lit))})

\* potencia_from_filename, lines 199-206, g2 the digits found in the path.
sim_pot_of_path(g2) == IF g2 # "" THEN Int2F(DigitsVal(g2)) ELSE NaN

\* potencia_from_filename, lines 193-206, g the digits found in the basename.
sim_pot_of_name(f, g) ==
    IF g # "" THEN Int2F(DigitsVal(g))
    ELSE sim_pot_of_path(sim_search(PathOf(f), "Pot"))

\* potencia_from_filename(path)
sim_potencia_from_filename(f) == sim_pot_of_name(f, sim_search(f.name, "_pot"))

\* collect_all_scalars, lines 211-226: the rows of one file, parsed (scalars
\* and attrs) and with the power pot.
sim_file_rows(f, parsed, pot) ==
    [i \in 1..Len(parsed.scalars) |->
       [filepath |-> PathOf(f),
        configname |-> DictGet(parsed.attrs, "configname", "None"),
        repetition |-> DictGet(parsed.attrs, "repetition", "None"),
        run_id |-> DictGet(parsed.attrs, "runid",
                           DictGet(parsed.attrs, "runID", "None")),
        potencia_dbm |-> pot,
        module |-> parsed.scalars[i].module,
        name |-> parsed.scalars[i].name,
        value |-> parsed.scalars[i].value]]

\* collect_all_scalars, one iteration of the loop over files.
sim_collect_file(f) ==
    sim_file_rows(f, sim_parse_sca_file(f.lines), sim_potencia_from_filename(f))

\* df[df["name"].str.contains(pattern)] for a case-insensitive pattern that
\* is one of the lowercase words.
sim_family(df, words) ==
    SelectSeq(df, LAMBDA r : \E w \in words : Contains(LowerStr(r.name), w))

\* The values of the rows of sub with the power key.
sim_group_values(sub, key) ==
    [j \in 1..Len(SelectSeq(sub, LAMBDA r : r.potencia_dbm = key)) |->
       SelectSeq(sub, LAMBDA r : r.potencia_dbm = key)[j].value]

\* sub.groupby("potencia_dbm")["value"].agg(how), sorted by power; rows with
\* a nan power belong to no group.
sim_agg_by_keys(sub, how, keys) ==
    [i \in 1..Len(keys) |->
       [potencia_dbm |-> keys[i],
        value |-> IF how = "sum" THEN PdSum(sim_group_values(sub, keys[i]))
                  ELSE PdMean(sim_group_values(sub, keys[i]))]]

\* agg_by_power(sub, how, label)
sim_agg_by_power(sub, how) ==
    sim_agg_by_keys(sub, how,
                    GroupKeys([i \in 1..Len(sub) |-> sub[i].potencia_dbm]))

\* summarize_metrics(df)
sim_summarize_metrics(df) ==
    [thr_sum |-> sim_agg_by_power(sim_family(df, {"throughput"}), "sum"),
     thr_mean |-> sim_agg_by_power(sim_family(df, {"throughput"}), "mean"),
     sinr_mean |-> sim_agg_by_power(sim_family(df, {"sinr", "snir"}), "mean"),
     rsrq_mean |-> sim_agg_by_power(sim_family(df, {"rsrq"}), "mean"),
     rsrp_mean |-> sim_agg_by_power(sim_family(df, {"rsrp"}), "mean"),
     raw |-> df]

---------------------------------------------------------------------------
(* analisar_sca.py: the three line patterns, parse_sca, process_topology.  *)
(* The patterns are matched line by line: no line of a file ends inside a  *)
(* match (a scalar line holds its module, name and value).                 *)

\* NUM, matching the whole token: \d+(?:\.\d+)?
ana_NUM(tok) ==
    /\ SkipDigits(tok, 1) > 1
    /\ \/ SkipDigits(tok, 1) = Len(tok) + 1
       \/ /\ Ch(tok, SkipDigits(tok, 1)) = "."
          /\ SkipDigits(tok, SkipDigits(tok, 1) + 1) = Len(tok) + 1
          /\ SkipDigits(tok, 1) + 1 <= Len(tok)

\* The token ends with \.ue\[(\d+)\]\.app\[(\d+)\], j the position before the
\* digits of app.
ana_ue_before_app(tok, j) ==
    /\ EndsWithAt(tok, j, "].app[")
    /\ BackDigits(tok, j - 6) < j - 6
    /\ EndsWithAt(tok, BackDigits(tok, j - 6), ".ue[")

ana_ends_with_ue_app(tok) ==
    /\ Len(tok) >= 1 /\ Ch(tok, Len(tok)) = "]"
    /\ BackDigits(tok, Len(tok) - 1) < Len(tok) - 1
    /\ ana_ue_before_app(tok, BackDigits(tok, Len(tok) - 1))

\* The token ends with \.gnb(\d+)\.cellularNic\.mac
ana_ends_with_gnb_mac(tok) ==
    /\ EndsWithAt(tok, Len(tok), ".cellularNic.mac")
    /\ BackDigits(tok, Len(tok) - 16) < Len(tok) - 16
    /\ EndsWithAt(tok, BackDigits(tok, Len(tok) - 16), ".gnb")

\* The tokens t of a line that starts with "scalar" and a blank end with a
\* name of names and a NUM.
ana_scalar_tail(line, t, names) ==
    /\ StartsWithAt(line, 1, "scalar")
    /\ Len(t) >= 4 /\ t[1] = "scalar"
    /\ t[Len(t) - 1] \in names
    /\ ana_NUM(t[Len(t)])

\* RE_UE_RX matches the line with the tokens t.
ana_RE_UE_RX(line, t) ==
    /\ ana_scalar_tail(line, t, {"cbrReceivedThroughput:mean",
                                 "cbrReceivedThroughtput:mean"})
    /\ ana_ends_with_ue_app(t[Len(t) - 2])

\* RE_UE_DELAY matches the line with the tokens t.
ana_RE_UE_DELAY(line, t) ==
    /\ ana_scalar_tail(line, t, {"cbrFrameDelay:mean"})
    /\ ana_ends_with_ue_app(t[Len(t) - 2])

\* RE_GNB_PROC matches the line with the tokens t.
ana_RE_GNB_PROC(line, t) ==
    /\ ana_scalar_tail(line, t, {"CNProcDemand:mean"})
    /\ ana_ends_with_gnb_mac(t[Len(t) - 2])

\* [float(v) for (.., v) in RE.findall(text)] for the lines a pattern takes.
ana_values(ls) ==
    [i \in 1..Len(ls) |-> ParseFloat(Tokens(ls[i])[Len(Tokens(ls[i]))]).v]

\* The gNB ids of the lines RE_GNB_PROC takes.
ana_gnb_id(line) ==
    LET tok == Tokens(line)[Len(Tokens(line)) - 2]
    IN  SubSeq(tok, BackDigits(tok, Len(tok) - 16) + 1, Len(tok) - 16)

\* RE_PDBM_FROM_NAME.search(name): (\d+)dBm, IGNORECASE; the leftmost run of
\* digits that "dbm" follows, "" when there is none.
ana_pdbm_digits(l, starts) ==
    IF starts = {} THEN ""
    ELSE SubSeq(l, Min(starts), SkipDigits(l, Min(starts)) - 1)

ana_RE_PDBM_FROM_NAME(name) ==
    ana_pdbm_digits(LowerStr(name),
        {i \in 1..Len(name) :
            /\ IsDigitAt(name, i)
            /\ StartsWithAt(LowerStr(name), SkipDigits(name, i), "dbm")})

\* infer_power_from_name(path)
ana_infer_power_from_name(name) ==
    IF ana_RE_PDBM_FROM_NAME(name) # ""
    THEN Int2F(DigitsVal(ana_RE_PDBM_FROM_NAME(name))) ELSE None

\* _finite(vals)
ana_finite(vals) == SelectSeq(vals, IsFinite)

\* to_mbps, lines 59-62, vals finite.
ana_scale_mbps(vals) ==
    IF vals = <<>> THEN <<>>
    ELSE IF FLt(FinE(1, 1, 5), Median(vals))
    THEN [i \in 1..Len(vals) |-> FDiv(vals[i], FinE(1, 1, 6))]
    ELSE vals

\* to_mbps(values)
ana_to_mbps(values) == ana_scale_mbps(ana_finite(values))

\* to_ms, lines 66-69, vals finite.
ana_scale_ms(vals) ==
    IF vals = <<>> THEN <<>>
    ELSE IF FLt(Median(vals), Int2F(10))
    THEN [i \in 1..Len(vals) |-> FMul(vals[i], Int2F(1000))]
    ELSE vals

\* to_ms(values)
ana_to_ms(values) == ana_scale_ms(ana_finite(values))

\* A variant of safe_mean that returns the sum.
ana_mean_or_sum(vals, default) ==
    IF vals # <<>> THEN SeqSum(vals) ELSE default

\* safe_mean, line 73, vals finite.
ana_mean_or(vals, default) ==
    IF vals # <<>> THEN FDiv(SeqSum(vals), Int2F(Len(vals))) ELSE default

\* safe_mean(values, default)
ana_safe_mean(values, default) == ana_mean_or(ana_finite(values), default)

\* parse_sca, lines 87-117, from the throughputs in Mbps, the delays in ms
\* and the lines RE_GNB_PROC takes.
ana_parse_row(f, ue_rx_mbps, ue_delay_ms, gnb_lines) ==
    [file |-> PathOf(f),
     p_dbm |-> ana_infer_power_from_name(f.name),
     sum_rate_mbps |-> IF ue_rx_mbps # <<>> THEN SeqSum(ue_rx_mbps) ELSE Zero,
     ue_active_count |->
         Int2F(Len(SelectSeq(ue_rx_mbps, LAMBDA v : FLt(Zero, v)))),
     mean_delay_ms |-> ana_safe_mean(ue_delay_ms, Zero),
     custo_computacional_gops_media_gnb |->
         ana_safe_mean(ana_values(gnb_lines), Zero),
     custo_computacional_gops_soma |->
         SeqSum(ana_finite(ana_values(gnb_lines))),
     gnb_count |->
         Int2F(Cardinality({DigitsVal(ana_gnb_id(gnb_lines[i])) :
                              i \in 1..Len(gnb_lines)}))]

\* parse_sca(sca)
ana_parse_sca(f) ==
    ana_parse_row(f,
        ana_to_mbps(ana_values(
            SelectSeq(f.lines, LAMBDA l : ana_RE_UE_RX(l, Tokens(l))))),
        ana_to_ms(ana_values(
            SelectSeq(f.lines, LAMBDA l : ana_RE_UE_DELAY(l, Tokens(l))))),
        SelectSeq(f.lines, LAMBDA l : ana_RE_GNB_PROC(l, Tokens(l))))

\* A variant of the grouping loop that files a row without power under 0.
ana_grouped_default_zero(rows) ==
    [i \in 1..Len(rows) |->
       IF rows[i].p_dbm = None THEN [rows[i] EXCEPT !.p_dbm = Zero]
       ELSE rows[i]]

\* process_topology, lines 227-230: the rows the grouping loop takes.
ana_grouped(rows) == SelectSeq(rows, LAMBDA r : r.p_dbm # None)

\* compute_global_eff_index, line 168, inv the outcome of 1.0 / (1.0 + dly/D0).
ana_global_eff_product(thp, ene, inv) ==
    IF ~inv.ok THEN [ok |-> FALSE, v |-> NaN]
    ELSE [ok |-> TRUE, v |-> FMul(FDiv(thp, ene), inv.v)]

\* compute_global_eff_index, line 168, q the outcome of dly / D0.
ana_global_eff_ratio(thp, ene, q) ==
    IF ~q.ok THEN [ok |-> FALSE, v |-> NaN]
    ELSE ana_global_eff_product(thp, ene,
                                PyDiv(Int2F(1), FAdd(Int2F(1), q.v)))

\* compute_global_eff_index(thp_mbps, energy_j, delay_ms, cfg): the value,
\* or ok = FALSE for a ZeroDivisionError.
ana_compute_global_eff_index(thp_mbps, energy_j, delay_ms, cfg) ==
    ana_global_eff_ratio(
        FloatOr0(thp_mbps),
        PyMax(FloatOr0(energy_j), FinE(1, 1, -12)),
        PyDiv(PyMax(FloatOr0(delay_ms), Zero),
              DictGet(cfg.general, "delay_ref_ms", Int2F(10))))

\* process_topology, lines 239-257: the row of the power p with the means of
\* its group g.
ana_base_row(p, g) ==
    [potencia_dbm |-> p,
     vazao_media_mbps |->
         ana_safe_mean([j \in 1..Len(g) |-> g[j].sum_rate_mbps], Zero),
     delay_medio_ms |->
         ana_safe_mean([j \in 1..Len(g) |-> g[j].mean_delay_ms], Zero),
     custo_computacional_gops_media_gnb |->
         ana_safe_mean([j \in 1..Len(g) |->
                          g[j].custo_computacional_gops_media_gnb], Zero),
     custo_computacional_gops_soma |->
         ana_safe_mean([j \in 1..Len(g) |->
                          g[j].custo_computacional_gops_soma], Zero),
     ues_ativos_medios |->
         ana_safe_mean([j \in 1..Len(g) |-> g[j].ue_active_count], Zero),
     gnb_count |->
         Int2F(PyRound(ana_safe_mean([j \in 1..Len(g) |-> g[j].gnb_count],
                                     Zero)))]

\* row.update(em) and the global efficiency index.
ana_energy_row(row, em, ieg) ==
    [raised |-> IF ieg.ok THEN "none" ELSE "ZeroDivisionError",
     row |-> [base |-> row, energy |-> <<em>>, global_eff_index |-> <<ieg.v>>]]

ana_row_with_em(row, em, cfg) ==
    ana_energy_row(row, em,
        ana_compute_global_eff_index(row.vazao_media_mbps, em.E_tot_J,
                                     row.delay_medio_ms, cfg))

\* process_topology, lines 258-271: the table row, with the energy columns
\* when a config is given (energy is <<>> without one).
ana_table_row(row, cfg) ==
    IF cfg = <<>>
    THEN [raised |-> "none",
          row |-> [base |-> row, energy |-> <<>>, global_eff_index |-> <<>>]]
    ELSE ana_row_with_em(row,
             ana_compute_power_energy_eff(
                 row.potencia_dbm, row.custo_computacional_gops_soma,
                 row.ues_ativos_medios, row.vazao_media_mbps, cfg),
             cfg)

\* process_topology, lines 238-271: the table rows of the powers, from the
\* rows g the grouping loop took.
ana_table_rows(g, powers, cfg) ==
    [i \in 1..Len(powers) |->
       ana_table_row(
           ana_base_row(powers[i],
                        SelectSeq(g, LAMBDA r : r.p_dbm = powers[i])),
           cfg)]

\* process_topology, lines 223-274: the table, or the exception.
ana_table_or_raise(trs) ==
    IF \E i \in 1..Len(trs) : trs[i].raised # "none"
    THEN [raised |-> "ZeroDivisionError", table |-> <<>>]
    ELSE [raised |-> "none", table |-> [i \in 1..Len(trs) |-> trs[i].row]]

ana_table_of_grouped(g, cfg) ==
    ana_table_or_raise(
        ana_table_rows(g, GroupKeys([i \in 1..Len(g) |-> g[i].p_dbm]), cfg))

ana_build_table(rows, cfg) == ana_table_of_grouped(ana_grouped(rows), cfg)

---------------------------------------------------------------------------
(* Reading one file line by line with both line parsers.                   *)

MaxLines == 2

\* Lines a result file may hold: scalar lines with numeric, non-numeric,
\* overflowing and quoted tokens, attribute lines, other line kinds.
SampleLines ==
    { "scalar m thr 5",
      "scalar m thr abc",
      "scalar m thr nan",
      "scalar m thr e",
      "scalar m throughput 3,5",
      "scalar m thr 1e999",
      "scalar \"a b\" 'rx thr' 1.5e-3 ms",
      "scalar \"a b\" \"rx\" -3",
      "scalar \"\"a\"\" ' 5",
      "scalar \"m' 'n 5",
      "  scalar m d 7 s",
      "attr power 26",
      "attr k \"v w\"",
      "par x y",
      "" }

SeqsUpTo(S, n) == UNION {[1..k -> S] : k \in 0..n}

\* No script is running.
EnergyIdle ==
    /\ script = "" /\ pc = ""
    /\ calc_scn = <<>> /\ calc_df = <<>>
    /\ ana_args = <<>> /\ ana_em = <<>>
    /\ res_args = <<>> /\ res_agg = <<>> /\ res_table = <<>>

\* No batch of files is being processed.
PipeIdle ==
    /\ batch = <<>> /\ nread = 0
    /\ res_rows = <<>> /\ res_df = <<>>
    /\ sim_rows = <<>> /\ sim_raw_csv = <<>> /\ sim_metrics = <<>>
    /\ ana_cfg = <<>> /\ ana_rows = <<>> /\ ana_json = <<>> /\ ana_table = <<>>

\* No simulation is being run.
RunIdle ==
    /\ run_cfg = <<>> /\ run_level = 0 /\ run_jobs = <<>>
    /\ run_results = <<>> /\ run_sca = {} /\ run_status = <<>>
    /\ run_failed = <<>> /\ run_analysis = <<>>

\* collect_results.py is not running, and no aggregator is called on its
\* own.
CollectIdle ==
    /\ disk = <<>> /\ col_k = 0
    /\ col_ue = <<>> /\ col_gnb = <<>> /\ all_simulation_data = <<>>
    /\ agg_values = <<>> /\ agg_mean = <<>>
    /\ conv_dbm = <<>> /\ conv_w = <<>>
    /\ RunIdle

\* No file is being read line by line.
ParseIdle ==
    /\ lines = <<>>
    /\ res_i = 0 /\ res_out = <<>>
    /\ sim_i = 0 /\ sim_scalars = <<>> /\ sim_attrs = <<>>

ParseInit ==
    /\ EnergyIdle
    /\ CollectIdle
    /\ PipeIdle
    /\ lines \in SeqsUpTo(SampleLines, MaxLines)
    /\ res_i = 0 /\ res_out = <<>>
    /\ sim_i = 0 /\ sim_scalars = <<>> /\ sim_attrs = <<>>
    /\ raised = "none"

\* results.py parse_sca_file: the next iteration of `for line in f`.
res_ParseLine ==
    /\ raised = "none"
    /\ res_i < Len(lines)
    /\ LET r == res_parse_line(res_out, lines[res_i + 1])
       IN  /\ res_out' = r.out
           /\ raised' = r.raised
    /\ res_i' = res_i + 1
    /\ UNCHANGED <<lines, sim_i, sim_scalars, sim_attrs, energyVars, pipeVars,
                 collectVars, aggVars, convVars, runVars>>

\* Simu5G parse_sca_file: the next iteration of `for raw in fh`.
sim_ParseLine ==
    /\ raised = "none"
    /\ sim_i < Len(lines)
    /\ LET r == sim_parse_line(sim_scalars, sim_attrs, lines[sim_i + 1])
       IN  /\ sim_scalars' = r.scalars
           /\ sim_attrs' = r.attrs
           /\ raised' = r.raised
    /\ sim_i' = sim_i + 1
    /\ UNCHANGED <<lines, res_i, res_out, energyVars, pipeVars, collectVars,
                   aggVars, convVars, runVars>>

ParseNext == res_ParseLine \/ sim_ParseLine

SpecParse == ParseInit /\ [][ParseNext]_vars

---------------------------------------------------------------------------
(* The line grammar of the specification, by blank-separated tokens.       *)

HasQuote(tok) == \E i \in 1..Len(tok) : Ch(tok, i) \in {"\"", "'"}

\* An attribute line: the keyword, a key token and a value remainder.
IsAttrShape(l) == LET t == Tokens(l) IN Len(t) >= 3 /\ t[1] = "attr"

\* A scalar line: the keyword, a module token, a name token, a value token.
IsScalarShape(l) == LET t == Tokens(l) IN Len(t) >= 4 /\ t[1] = "scalar"

\* A scalar line whose module and name tokens are unquoted.
IsPlainScalarLine(l) ==
    LET t == Tokens(l)
    IN  IsScalarShape(l) /\ ~HasQuote(t[2]) /\ ~HasQuote(t[3])

\* The lines of ls with first token "scalar" all have unquoted tokens.
AllPlain(ls) ==
    \A j \in 1..Len(ls) :
        (Tokens(ls[j]) # <<>> /\ Tokens(ls[j])[1] = "scalar")
            => IsPlainScalarLine(ls[j]) \/ ~IsScalarShape(ls[j])

\* recs holds, for every plain scalar line of ls, as many records of that
\* module and name as ls has such lines.
RecordsMatchLines(recs, ls) ==
    \A j \in 1..Len(ls) :
        IsPlainScalarLine(ls[j]) =>
            LET t == Tokens(ls[j])
            IN  Cardinality({i \in 1..Len(recs) :
                               recs[i].module = t[2] /\ recs[i].name = t[3]})
                = Cardinality({i \in 1..Len(ls) :
                               /\ IsPlainScalarLine(ls[i])
                               /\ Tokens(ls[i])[2] = t[2]
                               /\ Tokens(ls[i])[3] = t[3]})

---------------------------------------------------------------------------
(* Claims about the line parsers (SpecParse).                              *)

\* C3: once a file is read, every scalar line with a module, a name and a
\* value token has given exactly one record of that module and name,
\* whatever the value token is, in both parse_sca_file routines.
C3_EveryScalarLineYieldsARecord ==
    AllPlain(lines) =>
        /\ res_i = Len(lines) => RecordsMatchLines(res_out, lines)
        /\ sim_i = Len(lines) => RecordsMatchLines(sim_scalars, lines)

\* C4: no line makes a parser raise, and a step over a line that is neither
\* an attribute line nor a scalar line leaves the records and the attributes
\* as they were and moves on to the next line.
C4_MalformedLinesAreSkipped ==
    /\ raised = "none"
    /\ [][/\ raised' = "none"
          /\ (res_i' = res_i + 1 /\ ~IsScalarShape(lines[res_i + 1])
                                 /\ ~IsAttrShape(lines[res_i + 1]))
                => res_out' = res_out
          /\ (sim_i' = sim_i + 1 /\ ~IsScalarShape(lines[sim_i + 1])
                                 /\ ~IsAttrShape(lines[sim_i + 1]))
                => sim_scalars' = sim_scalars /\ sim_attrs' = sim_attrs]_vars

\* C4 witness: both parsers skipped an unknown line and took the scalar
\* line after it.
C4_Witness ==
    /\ lines = <<"par x y", "scalar m thr 5">>
    /\ res_i = 2 /\ Len(res_out) = 1
    /\ sim_i = 2 /\ Len(sim_scalars) = 1
    /\ raised = "none"

---------------------------------------------------------------------------
(* The energy models of the three scripts, each run on its own inputs.     *)

MaxPoints == 2

\* Transmit powers (dBm) whose watt values are exact, in the order a user
\* may list them, and a throughput (Mbps) for each.
SamplePowers == <<Int2F(40), Int2F(30), Int2F(20)>>
SampleThroughputs == <<Int2F(2), Int2F(1), Int2F(3)>>

\* calculate.py Scenarios: the constants of "Configuração 1", all-zero and
\* negative constants, gamma on and off, and each of the six base/slope
\* values of "Configuração 2" either supplied or left at None (the slope of
\* the idle power also negative).
CalcScenarios ==
    { [D_proc |-> Int2F(50), N_UE |-> Int2F(10), T_sim |-> Int2F(20),
       potencias_dbm |-> SubSeq(SamplePowers, 1, n),
       throughput_mbps |-> SubSeq(SampleThroughputs, 1, n),
       gamma |-> gm, P_idle |-> c[1], alpha |-> c[2], beta |-> c[3],
       Pidle_base |-> o[1], k_idle |-> o[2], alpha_base |-> o[3],
       k_alpha |-> o[4], beta_base |-> o[5], k_beta |-> o[6]] :
      n \in 1..MaxPoints,
      gm \in {Int2F(1), Zero},
      c \in { <<Int2F(100), FinE(5, 1, -2), FinE(5, 1, -1)>>,
              <<Zero, Zero, Zero>>,
              <<Int2F(-1), Zero, Zero>> },
      o \in {None, Int2F(90)} \X {None, FinE(5, 1, -1), Int2F(-2)}
              \X {None, FinE(4, 1, -2)} \X {None, FinE(1, 1, -4)}
              \X {None, FinE(3, 1, -1)} \X {None, FinE(5, 1, -3)} }

\* analisar_sca.py: the "general" and "limits" sections of a config file.
AnaGenerals ==
    { <<>>,
      << <<"idle_power_w", Int2F(100)>>, <<"alpha", FinE(5, 1, -2)>>,
         <<"beta", FinE(5, 1, -1)>>, <<"gamma", Int2F(1)>>,
         <<"sim_time_s", Int2F(10)>> >>,
      << <<"idle_power_w", Int2F(100)>>, <<"alpha", FinE(5, 1, -2)>>,
         <<"beta", FinE(5, 1, -1)>> >>,
      << <<"idle_power_w", Int2F(-1)>> >> }

AnaLimits ==
    { <<>>,
      << <<"min_power_w", Int2F(150)>> >>,
      << <<"max_power_w", Int2F(50)>> >>,
      << <<"min_power_w", Int2F(50)>>, <<"max_power_w", Int2F(150)>> >>,
      << <<"min_power_w", Int2F(150)>>, <<"max_power_w", Int2F(50)>> >> }

\* The arguments process_topology passes for one power: the power of the
\* file name, the summed processing demand, the number of active UEs and
\* the summed throughput (a measured 0.0 among them).
AnaArgs ==
    [power_dbm : {Int2F(30), Int2F(40)},
     proc_sum_gops : {Int2F(50), Zero},
     ue_active_mean : {Int2F(10), Zero},
     thp_sum_mbps : {Int2F(5), Zero},
     cfg : [general : AnaGenerals, limits : AnaLimits]]

\* results.py: EnergyCalib with its defaults, all zero, and a negative base.
ResCalibs ==
    { [P_idle_base |-> Int2F(80), k_idle |-> FinE(5, 1, -1),
       alpha_base |-> FinE(4, 1, -2), k_alpha |-> FinE(1, 1, -4),
       beta_base |-> FinE(3, 1, -1), k_beta |-> FinE(5, 1, -3)],
      [P_idle_base |-> Zero, k_idle |-> Zero, alpha_base |-> Zero,
       k_alpha |-> Zero, beta_base |-> Zero, k_beta |-> Zero],
      [P_idle_base |-> Int2F(-80), k_idle |-> Zero, alpha_base |-> Zero,
       k_alpha |-> Zero, beta_base |-> Zero, k_beta |-> Zero] }

\* results.py: the rows of agg, one per power in ascending order; the mean
\* of a metric no file reported is nan.
ResAggTables ==
    UNION { { [i \in 1..n |->
                 [power_dbm |-> Int2F(10 * (i + 1)), throughput |-> t[i],
                  sinr |-> NaN, cn_procdemand |-> c[i]]] :
              t \in [1..n -> {Int2F(5), Zero, NaN}],
              c \in [1..n -> {Int2F(50), NaN}] } : n \in 1..MaxPoints }

EnergyInit ==
    /\ ParseIdle
    /\ CollectIdle
    /\ PipeIdle
    /\ raised = "none"
    /\ pc = "energy"
    /\ calc_df = <<>> /\ ana_em = <<>> /\ res_table = <<>>
    /\ \/ /\ script = "calculate"
          /\ calc_scn \in CalcScenarios
          /\ ana_args = <<>> /\ res_args = <<>> /\ res_agg = <<>>
       \/ /\ script = "analisar"
          /\ ana_args \in AnaArgs
          /\ calc_scn = <<>> /\ res_args = <<>> /\ res_agg = <<>>
       \/ /\ script = "results"
          /\ res_args \in [num_ues : {Int2F(39)}, tsim : {Int2F(20)},
                           powers : {<<>>}, calib : ResCalibs]
          /\ res_agg \in ResAggTables
          /\ calc_scn = <<>> /\ ana_args = <<>>

\* calculate.py: df = compute_dataframe(scn)
calc_ComputeDataframe ==
    /\ script = "calculate" /\ pc = "energy"
    /\ LET r == calc_compute_dataframe(calc_scn)
       IN  /\ calc_df' = r.df
           /\ raised' = r.raised
    /\ pc' = "done"
    /\ UNCHANGED <<collectVars, aggVars, convVars, runVars>>
    /\ UNCHANGED <<parseVars, script, calc_scn, ana_args, ana_em,
                   res_args, res_agg, res_table, pipeVars>>

\* analisar_sca.py: em = compute_power_energy_eff(p, proc, ues, thp, cfg)
ana_ComputePowerEnergyEff ==
    /\ script = "analisar" /\ pc = "energy"
    /\ ana_em' = ana_compute_power_energy_eff(
                     ana_args.power_dbm, ana_args.proc_sum_gops,
                     ana_args.ue_active_mean, ana_args.thp_sum_mbps,
                     ana_args.cfg)
    /\ pc' = "done"
    /\ UNCHANGED <<collectVars, aggVars, convVars, runVars>>
    /\ UNCHANGED <<parseVars, raised, script, calc_scn, calc_df, ana_args,
                   res_args, res_agg, res_table, pipeVars>>

\* results.py main: the energy loop over agg and the efficiency column.
res_EnergyLoop ==
    /\ script = "results" /\ pc = "energy"
    /\ res_table' = [i \in 1..Len(res_agg) |->
                       res_energy_row(res_agg[i], res_args)]
    /\ pc' = "done"
    /\ UNCHANGED <<collectVars, aggVars, convVars, runVars>>
    /\ UNCHANGED <<parseVars, raised, script, calc_scn, calc_df, ana_args,
                   ana_em, res_args, res_agg, pipeVars>>

EnergyNext ==
    \/ calc_ComputeDataframe
    \/ ana_ComputePowerEnergyEff
    \/ res_EnergyLoop

SpecEnergy == EnergyInit /\ [][EnergyNext]_vars

---------------------------------------------------------------------------
(* The energy model as the specification writes it.                        *)

\* The watt value of a power key: 10^((dBm - 30) / 10).
WattsOfKey(dbm) == Pow10F(FDiv(FSub(dbm, Int2F(30)), Int2F(10)))

\* P_idle + alpha * D_proc + beta * N_active_users + gamma * P_tx_W
ModelSum(P_idle, alpha, D_proc, beta, N, gamma, P_tx_W) ==
    FAdd(FAdd(FAdd(P_idle, FMul(alpha, D_proc)), FMul(beta, N)),
         FMul(gamma, P_tx_W))

\* base + slope * P_tx_W
Affine(base, slope, P_tx_W) == FAdd(base, FMul(slope, P_tx_W))

AllSixSupplied(scn) ==
    /\ ~IsNone(scn.Pidle_base) /\ ~IsNone(scn.k_idle)
    /\ ~IsNone(scn.alpha_base) /\ ~IsNone(scn.k_alpha)
    /\ ~IsNone(scn.beta_base) /\ ~IsNone(scn.k_beta)

NoneOfSixSupplied(scn) ==
    /\ IsNone(scn.Pidle_base) /\ IsNone(scn.k_idle)
    /\ IsNone(scn.alpha_base) /\ IsNone(scn.k_alpha)
    /\ IsNone(scn.beta_base) /\ IsNone(scn.k_beta)

\* The model sum for a Scenario at a power key, with the coefficients
\* resolved by the variant the Scenario declares.
CalcModelSum(scn, p_dbm) ==
    LET w == WattsOfKey(p_dbm)
    IN  IF AllSixSupplied(scn)
        THEN ModelSum(Affine(scn.Pidle_base, scn.k_idle, w),
                      Affine(scn.alpha_base, scn.k_alpha, w), scn.D_proc,
                      Affine(scn.beta_base, scn.k_beta, w), scn.N_UE,
                      scn.gamma, w)
        ELSE ModelSum(scn.P_idle, scn.alpha, scn.D_proc, scn.beta, scn.N_UE,
                      scn.gamma, w)

\* The model sum for compute_power_energy_eff's arguments; a coefficient the
\* config leaves out is 0.0.
AnaModelSum(a) ==
    LET g == a.cfg.general
    IN  ModelSum(DictGet(g, "idle_power_w", Zero),
                 DictGet(g, "alpha", Zero), a.proc_sum_gops,
                 DictGet(g, "beta", Zero), a.ue_active_mean,
                 DictGet(g, "gamma", Zero), WattsOfKey(a.power_dbm))

\* The model sum for a row of results.py's agg with coupling factor gamma.
ResModelSum(r, args, gamma) ==
    LET w == WattsOfKey(r.power_dbm)
        c == args.calib
    IN  ModelSum(Affine(c.P_idle_base, c.k_idle, w),
                 Affine(c.alpha_base, c.k_alpha, w),
                 IF IsNaN(r.cn_procdemand) THEN Zero ELSE r.cn_procdemand,
                 Affine(c.beta_base, c.k_beta, w), args.num_ues,
                 gamma, w)

CalcDone == script = "calculate" /\ pc = "done" /\ raised = "none"
AnaDone == script = "analisar" /\ pc = "done"
ResDone == script = "results" /\ pc = "done"

\* x within [lo, hi], the bounds that limits configures (absent: no bound).
WithinLimits(x, limits) ==
    /\ DictHas(limits, "min_power_w")
         => ~FLt(x, DictGet(limits, "min_power_w", Zero))
    /\ DictHas(limits, "max_power_w")
         => ~FLt(DictGet(limits, "max_power_w", Zero), x)

---------------------------------------------------------------------------
(* Claims about the energy models (SpecEnergy).                            *)

\* C7: a Scenario for which compute_dataframe produces rows has either all
\* six base/slope values supplied or none of them: a Scenario that supplies
\* only some is not accepted.
C7_VariantIsAllOrNothing ==
    CalcDone => AllSixSupplied(calc_scn) \/ NoneOfSixSupplied(calc_scn)

\* C8 as stated: in every implementation the reported average power is
\* P_idle + alpha*D_proc + beta*N + gamma*P_tx_W with the resolved
\* coefficients (gamma the coupling factor, 1.0 where the script has none).
C8_AveragePowerIsTheModelSum ==
    /\ CalcDone =>
         \A i \in 1..Len(calc_df) :
             calc_df[i].P_gNB = CalcModelSum(calc_scn, calc_df[i].p_dbm)
    /\ AnaDone => ana_em.P_tot_W = AnaModelSum(ana_args)
    /\ ResDone =>
         \A i \in 1..Len(res_table) :
             res_table[i].Pavg_gNB_W
                 = ResModelSum(res_agg[i], res_args, Int2F(1))

\* C8 amended: energy_components reports the model sum; the power
\* compute_power_energy_eff reports is the model sum when that lies within
\* the configured limits, else the limit it was clamped to (max_power_w
\* when both limits apply); gnb_power_energy reports the sum without the
\* transmit-power term, P_idle + alpha*D_proc + beta*N.
C8_AveragePowerIsTheModelSumOrItsLimit ==
    /\ CalcDone =>
         \A i \in 1..Len(calc_df) :
             calc_df[i].P_gNB = CalcModelSum(calc_scn, calc_df[i].p_dbm)
    /\ AnaDone =>
         LET S == AnaModelSum(ana_args)
             lim == ana_args.cfg.limits
             lo == DictGet(lim, "min_power_w", Zero)
             hi == DictGet(lim, "max_power_w", Zero)
         IN  /\ WithinLimits(S, lim) => ana_em.P_tot_W = S
             /\ ~WithinLimits(S, lim) =>
                  IF DictHas(lim, "max_power_w")
                       /\ (FLt(hi, S) \/ (DictHas(lim, "min_power_w")
                                            /\ FLt(hi, lo)))
                  THEN ana_em.P_tot_W = hi
                  ELSE ana_em.P_tot_W = lo
    /\ ResDone =>
         \A i \in 1..Len(res_table) :
             res_table[i].Pavg_gNB_W = ResModelSum(res_agg[i], res_args, Zero)

\* C8 witness: compute_power_energy_eff reported a clamped power that
\* differs from the model sum.
C8_Witness ==
    /\ AnaDone
    /\ ~WithinLimits(AnaModelSum(ana_args), ana_args.cfg.limits)
    /\ ana_em.P_tot_W # AnaModelSum(ana_args)

\* C9: in every output row the total energy is the average power reported
\* in that row times the configured simulation duration, also when the
\* reported power was clamped.
C9_EnergyIsReportedPowerTimesDuration ==
    /\ CalcDone =>
         \A i \in 1..Len(calc_df) :
             calc_df[i].Energia = FMul(calc_df[i].P_gNB, calc_scn.T_sim)
    /\ AnaDone =>
         ana_em.E_tot_J
             = FMul(ana_em.P_tot_W,
                    DictGet(ana_args.cfg.general, "sim_time_s", Int2F(20)))
    /\ ResDone =>
         \A i \in 1..Len(res_table) :
             res_table[i].E_total_J
                 = FMul(res_table[i].Pavg_gNB_W, res_args.tsim)

\* C9 witness: a row of compute_power_energy_eff whose power was raised to
\* min_power_w and whose duration is the configured 10 s.
C9_Witness ==
    /\ AnaDone
    /\ DictHas(ana_args.cfg.limits, "min_power_w")
    /\ FLt(AnaModelSum(ana_args), ana_em.P_tot_W)
    /\ ana_em.sim_time_s = Int2F(10)
    /\ ana_em.E_tot_J = Int2F(1500)

\* C10: for every configuration of coefficients, in every script, the
\* efficiency computation finishes without a division by zero and gives a
\* finite value for a measured throughput.
C10_EfficiencyIsFinite ==
    /\ (script = "calculate" /\ pc = "done") =>
         /\ raised = "none"
         /\ \A i \in 1..Len(calc_df) : IsFinite(calc_df[i].Eficiencia)
    /\ AnaDone => IsFinite(ana_em.eff_mbps_per_joule)
    /\ ResDone =>
         \A i \in 1..Len(res_table) :
             IsFinite(res_agg[i].throughput)
                 => IsFinite(res_table[i].EE_throughput_per_J)


---------------------------------------------------------------------------
(* A batch of result files through results.py main, through Simu5G         *)
(* analyze_results and through analisar_sca.py process_topology.           *)

MaxFiles == 2

\* Result files as the three scripts find them, sorted by path: files of a
\* power directory and of a directory without a power in its name; names
\* with and without a power; files that declare a power attribute; a file
\* without scalars; an overflowing value; a transmit-power scalar in watts;
\* two files of one repetition named after the powers 26 and 36; names of
\* scalars in another case than the aliases, of two families and of none.
SampleFiles ==
    << [dir |-> "res/Pot20", name |-> "20dBm_a.sca",
        lines |-> <<"attr configname Sol1",
                    "scalar n.ue[0].app[0] cbrReceivedThroughput:mean 5",
                    "scalar n.gnb1.cellularNic.mac CNProcDemand:mean 50">>],
       [dir |-> "res/Pot20", name |-> "20dBm_b.sca",
        lines |-> <<"scalar n.ue[0].app[0] cbrReceivedThroughput:mean 1e999",
                    "scalar n.gnb1.cellularNic.mac CNProcDemand:mean 1e999">>],
       [dir |-> "res/Pot20", name |-> "20dBm_c.sca",
        lines |-> <<"scalar n.ue[0].phy SINR 4",
                    "scalar n.ue[0].phy avgSinrThroughput 6",
                    "scalar n.ue[0].app[0] THROUGHPUT 8",
                    "scalar n.ue[0].phy rsrp 1">>],
       [dir |-> "res/Pot20", name |-> "run_Pot40.sca",
        lines |-> <<"attr power 30",
                    "scalar n.ue[0].app[0] cbrReceivedThroughput:mean 3">>],
       [dir |-> "res/Pot26", name |-> "tx.sca",
        lines |-> <<"scalar n.gnb1.cellularNic.phy txPower 26",
                    "scalar n.ue[0].app[0] cbrReceivedThroughput:mean 4">>],
       [dir |-> "res/out", name |-> "40dBm.sca",
        lines |-> <<"par x y">>],
       [dir |-> "res/out", name |-> "a_pot40.sca",
        lines |-> <<"attr power 20",
                    "scalar n.ue[0].app[0] cbrReceivedThroughput:mean 0">>],
       [dir |-> "res/out", name |-> "run_Pot26.sca",
        lines |-> <<"attr repetition 0",
                    "scalar net.ue[0].app[0] ReceivedThroughput:mean 5000000">>],
       [dir |-> "res/out", name |-> "run_Pot36.sca",
        lines |-> <<"attr repetition 0",
                    "scalar net.ue[0].app[0] ReceivedThroughput:mean 7000000">>],
       [dir |-> "res/out", name |-> "x.sca",
        lines |-> <<"attr runID r7",
                    "scalar n.ue[0].app[0] cbrReceivedThroughput:mean 7",
                    "scalar n.ue[0].app[0] cbrFrameDelay:mean 2">>],
       [dir |-> "res/out", name |-> "y_Pot40.sca",
        lines |-> <<"scalar n.gnb1.cellularNic.phy txPower 10",
                    "scalar n.gnb1.cellularNic.mac CNProcDemand:mean 50">>] >>

\* The files of SampleFiles at the positions I, in the order of SampleFiles.
FilesAt(I) ==
    [k \in 1..Cardinality(I) |->
       SampleFiles[CHOOSE j \in I : Cardinality({x \in I : x <= j}) = k]]

\* What a recursive search of a result tree returns: up to MaxFiles files.
Batches ==
    { FilesAt(I) : I \in { J \in SUBSET (1..Len(SampleFiles)) :
                             Cardinality(J) <= MaxFiles } }

\* What topology_dir.glob("*.sca") returns: files of one directory.
FlatBatches ==
    { b \in Batches : \A i, j \in 1..Len(b) : b[i].dir = b[j].dir }

\* analisar_sca.py: no --energy-cfg, a config, a config with a zero
\* delay_ref_ms.
PipeCfgs ==
    { <<>>,
      [general |-> << <<"idle_power_w", Int2F(100)>>,
                      <<"alpha", FinE(5, 1, -2)>>, <<"beta", FinE(5, 1, -1)>>,
                      <<"gamma", Int2F(1)>>, <<"sim_time_s", Int2F(10)>> >>,
       limits |-> <<>>],
      [general |-> << <<"idle_power_w", Int2F(100)>>,
                      <<"delay_ref_ms", Zero>> >>,
       limits |-> <<>>] }

\* results.py: --powers with the powers of the tree, with its default, and
\* without values.
PipePowers ==
    { <<Int2F(20), Int2F(40)>>,
      <<Int2F(6), Int2F(16), Int2F(26), Int2F(36), Int2F(46), Int2F(56)>>,
      <<>> }

PipeInit ==
    /\ ParseIdle
    /\ CollectIdle
    /\ raised = "none"
    /\ pc = "read" /\ nread = 0
    /\ calc_scn = <<>> /\ calc_df = <<>> /\ ana_args = <<>> /\ ana_em = <<>>
    /\ res_agg = <<>> /\ res_table = <<>>
    /\ res_rows = <<>> /\ res_df = <<>>
    /\ sim_rows = <<>> /\ sim_raw_csv = <<>> /\ sim_metrics = <<>>
    /\ ana_rows = <<>> /\ ana_json = <<>> /\ ana_table = <<>>
    /\ \/ /\ script = "results"
          /\ batch \in Batches
          /\ res_args \in [num_ues : {Int2F(39)}, tsim : {Int2F(20)},
                           powers : PipePowers, calib : ResCalibs]
          /\ ana_cfg = <<>>
       \/ /\ script = "simu5g"
          /\ batch \in Batches
          /\ res_args = <<>> /\ ana_cfg = <<>>
       \/ /\ script = "analisar"
          /\ batch \in FlatBatches
          /\ ana_cfg \in PipeCfgs
          /\ res_args = <<>>

\* results.py main, lines 162-164: no file found.
res_NoFiles ==
    /\ script = "results" /\ pc = "read" /\ batch = <<>>
    /\ raised' = "SystemExit"
    /\ pc' = "done"
    /\ UNCHANGED <<collectVars, aggVars, convVars, runVars>>
    /\ UNCHANGED <<parseVars, script, calc_scn, calc_df, ana_args, ana_em,
                   res_args, res_agg, res_table, pipeVars>>

\* results.py main, lines 166-173: one iteration of `for p in sca_paths`.
res_ReadFile ==
    /\ script = "results" /\ pc = "read" /\ nread < Len(batch)
    /\ res_rows' = Append(res_rows,
                          res_row(batch[nread + 1],
                                  res_parse_sca_file(batch[nread + 1].lines)))
    /\ nread' = nread + 1
    /\ UNCHANGED <<collectVars, aggVars, convVars, runVars>>
    /\ UNCHANGED <<parseVars, raised, energyVars, batch, res_df, sim_rows,
                   sim_raw_csv, sim_metrics, ana_cfg, ana_rows, ana_json,
                   ana_table>>

\* results.py main, lines 175-184: df and the directory fallback.
res_BuildFrame ==
    /\ script = "results" /\ pc = "read"
    /\ batch # <<>> /\ nread = Len(batch)
    /\ res_df' = [i \in 1..Len(res_rows) |->
                    res_dir_fallback(batch[i], res_rows[i])]
    /\ pc' = "group"
    /\ UNCHANGED <<collectVars, aggVars, convVars, runVars>>
    /\ UNCHANGED <<parseVars, raised, script, calc_scn, calc_df, ana_args,
                   ana_em, res_args, res_agg, res_table, batch, nread,
                   res_rows, sim_rows, sim_raw_csv, sim_metrics, ana_cfg,
                   ana_rows, ana_json, ana_table>>

\* results.py main, lines 186-195: the expected powers and the aggregation.
res_Aggregate ==
    /\ script = "results" /\ pc = "group"
    /\ res_agg' = res_aggregate(res_df, res_args.powers)
    /\ pc' = "energy"
    /\ UNCHANGED <<collectVars, aggVars, convVars, runVars>>
    /\ UNCHANGED <<parseVars, raised, script, calc_scn, calc_df, ana_args,
                   ana_em, res_args, res_table, pipeVars>>

\* Simu5G analyze_results, lines 273-275: no file found.
sim_NoFiles ==
    /\ script = "simu5g" /\ pc = "read" /\ batch = <<>>
    /\ pc' = "done"
    /\ UNCHANGED <<collectVars, aggVars, convVars, runVars>>
    /\ UNCHANGED <<parseVars, raised, script, calc_scn, calc_df, ana_args,
                   ana_em, res_args, res_agg, res_table, pipeVars>>

\* A variant of collect_all_scalars whose attrs dict is created once, before
\* the loop, so that a file starts with the attributes of the file before it.
sim_CollectFile_shared_attrs ==
    /\ script = "simu5g" /\ pc = "read" /\ nread < Len(batch)
    /\ sim_rows' = sim_rows \o
           sim_file_rows(batch[nread + 1],
               sim_parse_lines(<<>>,
                   IF nread = 0 THEN <<>>
                   ELSE sim_parse_sca_file(batch[nread].lines).attrs,
                   batch[nread + 1].lines),
               sim_potencia_from_filename(batch[nread + 1]))
    /\ nread' = nread + 1
    /\ UNCHANGED <<collectVars, aggVars, convVars, runVars>>
    /\ UNCHANGED <<parseVars, raised, energyVars, batch, res_rows, res_df,
                   sim_raw_csv, sim_metrics, ana_cfg, ana_rows, ana_json,
                   ana_table>>

\* Simu5G collect_all_scalars: one iteration of `for f in files`.
sim_CollectFile ==
    /\ script = "simu5g" /\ pc = "read" /\ nread < Len(batch)
    /\ sim_rows' = sim_rows \o sim_collect_file(batch[nread + 1])
    /\ nread' = nread + 1
    /\ UNCHANGED <<collectVars, aggVars, convVars, runVars>>
    /\ UNCHANGED <<parseVars, raised, energyVars, batch, res_rows, res_df,
                   sim_raw_csv, sim_metrics, ana_cfg, ana_rows, ana_json,
                   ana_table>>

\* Simu5G analyze_results, lines 277-283: the raw export, the names for
\* diagnosis (a frame without rows has no column "name") and the summaries.
sim_Analyze ==
    /\ script = "simu5g" /\ pc = "read"
    /\ batch # <<>> /\ nread = Len(batch)
    /\ sim_raw_csv' = sim_rows
    /\ IF sim_rows = <<>>
       THEN raised' = "KeyError" /\ sim_metrics' = <<>>
       ELSE raised' = "none" /\ sim_metrics' = sim_summarize_metrics(sim_rows)
    /\ pc' = "done"
    /\ UNCHANGED <<collectVars, aggVars, convVars, runVars>>
    /\ UNCHANGED <<parseVars, script, calc_scn, calc_df, ana_args, ana_em,
                   res_args, res_agg, res_table, batch, nread, res_rows,
                   res_df, sim_rows, ana_cfg, ana_rows, ana_json, ana_table>>

\* analisar_sca.py process_topology, lines 214-217: no file found.
ana_NoFiles ==
    /\ script = "analisar" /\ pc = "read" /\ batch = <<>>
    /\ pc' = "done"
    /\ UNCHANGED <<collectVars, aggVars, convVars, runVars>>
    /\ UNCHANGED <<parseVars, raised, script, calc_scn, calc_df, ana_args,
                   ana_em, res_args, res_agg, res_table, pipeVars>>

\* analisar_sca.py process_topology, line 219: parse_sca of the next file.
ana_ParseSca ==
    /\ script = "analisar" /\ pc = "read" /\ nread < Len(batch)
    /\ ana_rows' = Append(ana_rows, ana_parse_sca(batch[nread + 1]))
    /\ nread' = nread + 1
    /\ UNCHANGED <<collectVars, aggVars, convVars, runVars>>
    /\ UNCHANGED <<parseVars, raised, energyVars, batch, res_rows, res_df,
                   sim_rows, sim_raw_csv, sim_metrics, ana_cfg, ana_json,
                   ana_table>>

\* A variant of process_topology that builds the table from the rows parsed
\* so far, as soon as one file is parsed.
ana_BuildTable_streaming ==
    /\ script = "analisar" /\ pc = "read"
    /\ batch # <<>> /\ nread >= 1
    /\ ana_json' = ana_rows
    /\ ana_table' = ana_build_table(ana_rows, ana_cfg).table
    /\ raised' = ana_build_table(ana_rows, ana_cfg).raised
    /\ pc' = "done"
    /\ UNCHANGED <<collectVars, aggVars, convVars, runVars>>
    /\ UNCHANGED <<parseVars, script, calc_scn, calc_df, ana_args, ana_em,
                   res_args, res_agg, res_table, batch, nread, res_rows,
                   res_df, sim_rows, sim_raw_csv, sim_metrics, ana_cfg,
                   ana_rows>>

\* analisar_sca.py process_topology, lines 220-274: the per-file export,
\* the grouping by power and the table.
ana_BuildTable ==
    /\ script = "analisar" /\ pc = "read"
    /\ batch # <<>> /\ nread = Len(batch)
    /\ ana_json' = ana_rows
    /\ ana_table' = ana_build_table(ana_rows, ana_cfg).table
    /\ raised' = ana_build_table(ana_rows, ana_cfg).raised
    /\ pc' = "done"
    /\ UNCHANGED <<collectVars, aggVars, convVars, runVars>>
    /\ UNCHANGED <<parseVars, script, calc_scn, calc_df, ana_args, ana_em,
                   res_args, res_agg, res_table, batch, nread, res_rows,
                   res_df, sim_rows, sim_raw_csv, sim_metrics, ana_cfg,
                   ana_rows>>

PipeNext ==
    \/ res_NoFiles
    \/ res_ReadFile
    \/ res_BuildFrame
    \/ res_Aggregate
    \/ res_EnergyLoop
    \/ sim_NoFiles
    \/ sim_CollectFile
    \/ sim_Analyze
    \/ ana_NoFiles
    \/ ana_ParseSca
    \/ ana_BuildTable

SpecPipe == PipeInit /\ [][PipeNext]_vars

---------------------------------------------------------------------------
(* The grouping key of a file as the specification writes it.              *)

\* The power a file declares in an attribute line, None without one.
DeclaredPower(f) ==
    IF DictHas(sim_parse_sca_file(f.lines).attrs, "power")
    THEN ParseFloat(DictGet(sim_parse_sca_file(f.lines).attrs, "power", "")).v
    ELSE None

\* The power the pattern of a routine finds in a text, None without a match.
PatternPower(routine, text) ==
    IF routine = "results" THEN res_power_of_match(res_REGEX_POT_IN_PATH(text))
    ELSE IF sim_search(text, "_pot") # ""
    THEN Int2F(DigitsVal(sim_search(text, "_pot")))
    ELSE IF sim_search(text, "Pot") # ""
    THEN Int2F(DigitsVal(sim_search(text, "Pot")))
    ELSE None

\* Attribute, else the file's own name, else its directory, else unresolved.
KeyByPriority(routine, f) ==
    IF ~IsNone(DeclaredPower(f)) THEN DeclaredPower(f)
    ELSE IF ~IsNone(PatternPower(routine, f.name))
    THEN PatternPower(routine, f.name)
    ELSE PatternPower(routine, f.dir)

\* The elements of a sequence.
Range(seq) == { seq[i] : i \in DOMAIN seq }

\* The file of the batch with the path p.
FileOfPath(p) == CHOOSE f \in Range(batch) : PathOf(f) = p

\* C1: every key-resolution routine takes the declared attribute first, then
\* the pattern in the file's own name, then the pattern in a directory name:
\* each row of results.py's frame and each raw row of Simu5G carries the key
\* of the first of the three that succeeds.
C1_KeyIsAttributeThenNameThenDirectory ==
    /\ (script = "results" /\ pc = "done" /\ raised = "none") =>
           \A i \in 1..Len(res_df) :
               ToNaN(KeyByPriority("results", batch[i])) = res_df[i].power_dbm
    /\ (script = "simu5g" /\ pc = "done") =>
           \A i \in 1..Len(sim_raw_csv) :
               ToNaN(KeyByPriority("simu5g",
                                   FileOfPath(sim_raw_csv[i].filepath)))
                   = sim_raw_csv[i].potencia_dbm

---------------------------------------------------------------------------
(* Files without a key.                                                    *)

\* The files of the batch at the positions where ok holds.
FilesWhere(ok) == [k \in 1..Cardinality({i \in DOMAIN batch : ok[i]}) |->
    batch[CHOOSE j \in {i \in DOMAIN batch : ok[i]} :
            Cardinality({x \in {i \in DOMAIN batch : ok[i]} : x <= j}) = k]]

\* analisar_sca.py: the files of the batch with a power in their name.
AnaResolvedFiles ==
    FilesWhere([i \in DOMAIN batch |->
                  ana_infer_power_from_name(batch[i].name) # None])

\* Simu5G: the files of the batch with a power in their path.
SimResolvedFiles ==
    FilesWhere([i \in DOMAIN batch |->
                  ~IsNaN(sim_potencia_from_filename(batch[i]))])

\* The raw rows of the files fs, in order.
RECURSIVE SimRowsOf(_)
SimRowsOf(fs) ==
    IF fs = <<>> THEN <<>>
    ELSE sim_collect_file(Head(fs)) \o SimRowsOf(Tail(fs))

\* The summaries of a Simu5G run without the raw frame.
SimAggregates(metrics) ==
    <<metrics.thr_sum, metrics.thr_mean, metrics.sinr_mean,
      metrics.rsrq_mean, metrics.rsrp_mean>>

\* The summaries of the raw rows df, all empty for a frame without rows.
SimAggregatesOf(df) == SimAggregates(sim_summarize_metrics(df))

\* C2: a file whose key cannot be resolved contributes to no per-key row and
\* is never filed under a default key, and stays in the raw export: the
\* tables of analisar_sca.py and of Simu5G are the tables of the files with
\* a key alone, every row carries the key of a file of the batch, and the
\* per-file JSON and the raw CSV hold every file and every scalar.
C2_UnresolvedFilesStayOutOfTheAggregates ==
    /\ (script = "analisar" /\ pc = "done" /\ batch # <<>>
            /\ raised = "none") =>
           /\ ana_table =
                  ana_build_table(
                      [i \in 1..Len(AnaResolvedFiles) |->
                         ana_parse_sca(AnaResolvedFiles[i])], ana_cfg).table
           /\ \A i \in 1..Len(ana_table) :
                  \E j \in 1..Len(batch) :
                      /\ ana_infer_power_from_name(batch[j].name) # None
                      /\ ana_infer_power_from_name(batch[j].name)
                             = ana_table[i].base.potencia_dbm
           /\ Len(ana_json) = Len(batch)
           /\ \A j \in 1..Len(batch) : ana_json[j] = ana_parse_sca(batch[j])
    /\ (script = "simu5g" /\ pc = "done" /\ raised = "none"
            /\ batch # <<>>) =>
           /\ SimAggregates(sim_metrics)
                  = SimAggregatesOf(SimRowsOf(SimResolvedFiles))
           /\ \A t \in Range(SimAggregates(sim_metrics)) :
                  \A i \in 1..Len(t) :
                      \E j \in 1..Len(batch) :
                          /\ ~IsNaN(sim_potencia_from_filename(batch[j]))
                          /\ sim_potencia_from_filename(batch[j])
                                 = t[i].potencia_dbm
           /\ sim_raw_csv = SimRowsOf(batch)
           /\ sim_metrics.raw = sim_raw_csv

\* A batch of analisar_sca.py with a file without a key that holds a
\* throughput record, and a file with a key, has given its table and its
\* per-file export.
C2_Witness ==
    /\ pc = "done" /\ raised = "none"
    /\ script = "analisar"
    /\ Len(AnaResolvedFiles) = 1 /\ Len(batch) = 2
    /\ \E j \in 1..Len(ana_json) :
           /\ ana_json[j].p_dbm = None
           /\ FLt(Zero, ana_json[j].sum_rate_mbps)
    /\ Len(ana_table) = 1

---------------------------------------------------------------------------
(* Metric families without a record, and values that are not finite.       *)

\* An aggregate that is absent: None, or the missing value of a table.
IsAbsent(x) == IsNone(x) \/ IsNaN(x)

\* The files of an analisar_sca.py batch under the power p.
AnaFilesOf(p) ==
    { j \in 1..Len(batch) : ana_infer_power_from_name(batch[j].name) = p }

\* A file holds a line of the family: throughput, delay, processing demand.
AnaHasRecord(f, family) ==
    \E k \in 1..Len(f.lines) :
        CASE family = "thp" -> ana_RE_UE_RX(f.lines[k], Tokens(f.lines[k]))
          [] family = "dly" -> ana_RE_UE_DELAY(f.lines[k], Tokens(f.lines[k]))
          [] family = "proc" -> ana_RE_GNB_PROC(f.lines[k], Tokens(f.lines[k]))

\* The files of a results.py batch under the power p.
ResFilesOf(p) == { j \in 1..Len(res_df) : res_df[j].power_dbm = p }

\* A file holds a record of one of the aliases.
ResHasRecord(f, aliases) ==
    res_metric_vals(res_parse_sca_file(f.lines),
                    [j \in 1..Len(aliases) |-> LowerStr(aliases[j])]) # <<>>

\* C5: a key and a metric family with no matching record have an absent
\* aggregate in the output table, not a 0.0.
C5_EmptyFamilyIsAbsent ==
    /\ (script = "analisar" /\ pc = "done" /\ raised = "none") =>
           \A i \in 1..Len(ana_table) :
               LET fs == AnaFilesOf(ana_table[i].base.potencia_dbm)
                   row == ana_table[i].base
               IN  /\ (\A j \in fs : ~AnaHasRecord(batch[j], "thp"))
                          => IsAbsent(row.vazao_media_mbps)
                   /\ (\A j \in fs : ~AnaHasRecord(batch[j], "dly"))
                          => IsAbsent(row.delay_medio_ms)
                   /\ (\A j \in fs : ~AnaHasRecord(batch[j], "proc"))
                          => /\ IsAbsent(row.custo_computacional_gops_media_gnb)
                             /\ IsAbsent(row.custo_computacional_gops_soma)
    /\ (script = "results" /\ pc = "done" /\ raised = "none") =>
           \A i \in 1..Len(res_table) :
               LET fs == ResFilesOf(res_table[i].power_dbm)
                   row == res_table[i]
               IN  /\ (\A j \in fs :
                          ~ResHasRecord(batch[j], res_ALIASES_throughput))
                          => IsAbsent(row.throughput)
                   /\ (\A j \in fs : ~ResHasRecord(batch[j], res_ALIASES_sinr))
                          => IsAbsent(row.sinr)
                   /\ (\A j \in fs :
                          ~ResHasRecord(batch[j], res_ALIASES_cn_procdemand))
                          => IsAbsent(row.cn_procdemand)

\* A statistic over finite values: finite, or absent when none remains.
FiniteOrAbsent(x) == IsFinite(x) \/ IsAbsent(x)

\* C6: every mean and sum of the aggregate tables is finite or absent, and
\* the energy model is given finite values and gives finite values.
C6_AggregatesAreFinite ==
    /\ (script = "analisar" /\ pc = "done" /\ raised = "none") =>
           \A i \in 1..Len(ana_table) :
               /\ IsFinite(ana_table[i].base.vazao_media_mbps)
               /\ IsFinite(ana_table[i].base.delay_medio_ms)
               /\ IsFinite(ana_table[i].base.custo_computacional_gops_media_gnb)
               /\ IsFinite(ana_table[i].base.custo_computacional_gops_soma)
               /\ IsFinite(ana_table[i].base.ues_ativos_medios)
    /\ (script = "simu5g" /\ pc = "done" /\ raised = "none"
            /\ batch # <<>>) =>
           \A t \in Range(SimAggregates(sim_metrics)) :
               \A i \in 1..Len(t) : FiniteOrAbsent(t[i].value)
    /\ (script = "results" /\ pc = "done" /\ raised = "none"
            /\ batch # <<>>) =>
           \A i \in 1..Len(res_table) :
               /\ FiniteOrAbsent(res_table[i].throughput)
               /\ FiniteOrAbsent(res_table[i].sinr)
               /\ FiniteOrAbsent(res_table[i].cn_procdemand)
               /\ IsFinite(res_table[i].E_total_J)

---------------------------------------------------------------------------
(* The global efficiency index.                                            *)

\* The configured reference delay of an analisar_sca.py run.
RefDelay(cfg) == DictGet(cfg.general, "delay_ref_ms", Int2F(10))

\* efficiency * 1 / (1 + Delay / D_ref)
IndexOf(efficiency, delay, d_ref) ==
    FMul(efficiency, FDiv(Int2F(1), FAdd(Int2F(1), FDiv(delay, d_ref))))

\* C11: the global efficiency index of a row of the table is the row's
\* efficiency eff_mbps_per_joule times 1 / (1 + Delay / D_ref).
C11_IndexIsEfficiencyTimesDelayFactor ==
    (script = "analisar" /\ pc = "done" /\ raised = "none"
        /\ ana_cfg # <<>>) =>
        \A i \in 1..Len(ana_table) :
            ana_table[i].global_eff_index[1]
                = IndexOf(ana_table[i].energy[1].eff_mbps_per_joule,
                          ana_table[i].base.delay_medio_ms,
                          RefDelay(ana_cfg))

---------------------------------------------------------------------------
(* Absent inputs of the energy model.                                      *)

\* C12: a key whose processing demand, active users, throughput or delay is
\* absent still gets a finite power, energy and efficiency, with zero in the
\* place of the absent input, and the run is not aborted.
C12_AbsentInputsBecomeZero ==
    /\ (script = "analisar" /\ pc = "done" /\ batch # <<>>
            /\ ana_cfg # <<>> /\ ~IsZero(RefDelay(ana_cfg))) =>
           /\ raised = "none"
           /\ \A i \in 1..Len(ana_table) :
                  /\ IsFinite(ana_table[i].energy[1].P_tot_W)
                  /\ IsFinite(ana_table[i].energy[1].E_tot_J)
                  /\ IsFinite(ana_table[i].energy[1].eff_mbps_per_joule)
                  /\ IsFinite(ana_table[i].global_eff_index[1])
    /\ (script = "results" /\ pc = "done" /\ batch # <<>>) =>
           /\ raised = "none"
           /\ \A i \in 1..Len(res_table) :
                  (/\ IsAbsent(res_table[i].throughput)
                        \/ IsAbsent(res_table[i].cn_procdemand)
                   /\ FiniteOrAbsent(res_table[i].throughput)
                   /\ FiniteOrAbsent(res_table[i].cn_procdemand)
                   /\ ~IsZero(res_table[i].E_total_J)) =>
                      /\ IsFinite(res_table[i].Pavg_gNB_W)
                      /\ IsFinite(res_table[i].E_total_J)
                      /\ IsFinite(res_table[i].EE_throughput_per_J)

---------------------------------------------------------------------------
(* Parsing before aggregation.                                             *)

\* The per-file rows of analisar_sca.py for the files fs, in order.
AnaRowsOf(fs) == [i \in 1..Len(fs) |-> ana_parse_sca(fs[i])]

\* C13: the per-key aggregates are computed only when every file of the
\* batch has been parsed, and over the rows of all files: the step that
\* leaves the reading loop of analyze_results or of process_topology is
\* taken with every file read, and its summaries are those of the complete
\* table.
C13_AggregationAfterAllParses ==
    [][ (pc = "read" /\ pc' = "done" /\ batch # <<>>) =>
           /\ script = "simu5g" =>
                  /\ nread = Len(batch)
                  /\ sim_rows = SimRowsOf(batch)
                  /\ sim_rows # <<>> =>
                         sim_metrics' = sim_summarize_metrics(SimRowsOf(batch))
           /\ script = "analisar" =>
                  /\ nread = Len(batch)
                  /\ ana_rows = AnaRowsOf(batch)
                  /\ ana_table' = ana_build_table(AnaRowsOf(batch),
                                                  ana_cfg).table ]_vars

\* process_topology has parsed two files with a key and built the table.
C13_Witness ==
    /\ script = "analisar" /\ pc = "done" /\ raised = "none"
    /\ Len(batch) = 2 /\ nread = 2
    /\ Len(AnaResolvedFiles) = 2
    /\ Len(ana_table) = 1

---------------------------------------------------------------------------
(* Files are parsed independently.                                         *)

\* The attribute key of the file with the path p, "None" without one.
AttrOfFile(p, key) ==
    DictGet(sim_parse_sca_file(FileOfPath(p).lines).attrs, key, "None")

\* The run id of the file with the path p: its runid, else its runID.
RunIdOfFile(p) ==
    DictGet(sim_parse_sca_file(FileOfPath(p).lines).attrs, "runid",
            AttrOfFile(p, "runID"))

\* The rows of results.py for the files fs, each from its own file alone.
ResRowsOf(fs) ==
    [i \in 1..Len(fs) |-> res_row(fs[i], res_parse_sca_file(fs[i].lines))]

\* C14: the rows of a file depend on that file alone: at every point the
\* flat table of Simu5G is the concatenation, in order, of the rows each
\* file read so far gives when it is collected on its own, every row carries
\* the attributes and the key of its own file, and the rows of results.py
\* are one per file read so far, each built from its own file.
C14_RowsDependOnTheirFileAlone ==
    /\ script = "simu5g" =>
           /\ sim_rows = SimRowsOf(SubSeq(batch, 1, nread))
           /\ \A i \in 1..Len(sim_rows) :
                  /\ sim_rows[i].configname
                         = AttrOfFile(sim_rows[i].filepath, "configname")
                  /\ sim_rows[i].repetition
                         = AttrOfFile(sim_rows[i].filepath, "repetition")
                  /\ sim_rows[i].run_id = RunIdOfFile(sim_rows[i].filepath)
                  /\ sim_rows[i].potencia_dbm
                         = sim_potencia_from_filename(
                               FileOfPath(sim_rows[i].filepath))
    /\ script = "results" =>
           /\ res_rows = ResRowsOf(SubSeq(batch, 1, nread))
           /\ \A i \in 1..Len(res_rows) : res_rows[i].path = PathOf(batch[i])

\* collect_all_scalars has read two files that declare different attributes
\* and both hold scalars.
C14_Witness ==
    /\ script = "simu5g" /\ pc = "done" /\ Len(batch) = 2
    /\ \E i, j \in 1..Len(sim_raw_csv) :
           /\ sim_raw_csv[i].filepath # sim_raw_csv[j].filepath
           /\ sim_raw_csv[i].configname = "Sol1"
           /\ sim_raw_csv[j].configname = "None"
           /\ sim_raw_csv[j].run_id = "r7"
           /\ sim_raw_csv[i].run_id = "None"

---------------------------------------------------------------------------
(* functions.py and collect_results.py.                                    *)

\* functions.py, the group (\d+(?:\.\d+)?) tried at position i: the position
\* after the match, 0 when there is none.
fn_NUM(s, i) ==
    IF SkipDigits(s, i) = i THEN 0
    ELSE IF /\ StartsWithAt(s, SkipDigits(s, i), ".")
            /\ SkipDigits(s, SkipDigits(s, i) + 1) > SkipDigits(s, i) + 1
         THEN SkipDigits(s, SkipDigits(s, i) + 1)
         ELSE SkipDigits(s, i)

fn_NoMatch == [ok |-> FALSE, index |-> 0, value |-> None, end |-> 0]

\* functions.py, the patterns of lines 15, 24, 50, 59 and 79 tried at
\* position i: the literal `pre`, (\d+), the literal `mid`, then the value
\* group.
fn_match(s, i, pre, mid) ==
    LET a == i + Len(pre)
        b == SkipDigits(s, a)
        c == b + Len(mid)
    IN  IF /\ StartsWithAt(s, i, pre) /\ b > a
           /\ StartsWithAt(s, b, mid) /\ fn_NUM(s, c) > 0
        THEN [ok |-> TRUE, index |-> DigitsVal(SubSeq(s, a, b - 1)),
              value |-> ParseFloat(SubSeq(s, c, fn_NUM(s, c) - 1)).v,
              end |-> fn_NUM(s, c)]
        ELSE fn_NoMatch

\* functions.py line 69, the placementSolution pattern tried at position i:
\* config *.gnb(\d+).cellInfo.placementSolution "\"{\\\"(\d+)\\\": {\\\"(\d+)\\\": 
\* and the value group; group 1 is the index, group 4 the value.
fn_match_split(s, i) ==
    LET pre == "config *.gnb"
        a == i + Len(pre)
        b == SkipDigits(s, a)
        m1 == ".cellInfo.placementSolution \"\\\"{\\\\\\\""
        c == b + Len(m1)
        d == SkipDigits(s, c)
        m2 == "\\\\\\\": {\\\\\\\""
        e == d + Len(m2)
        f == SkipDigits(s, e)
        m3 == "\\\\\\\": "
        g == f + Len(m3)
    IN  IF /\ StartsWithAt(s, i, pre) /\ b > a
           /\ StartsWithAt(s, b, m1) /\ d > c
           /\ StartsWithAt(s, d, m2) /\ f > e
           /\ StartsWithAt(s, f, m3) /\ fn_NUM(s, g) > 0
        THEN [ok |-> TRUE, index |-> DigitsVal(SubSeq(s, a, b - 1)),
              value |-> ParseFloat(SubSeq(s, g, fn_NUM(s, g) - 1)).v,
              end |-> fn_NUM(s, g)]
        ELSE fn_NoMatch

\* The matches at the positions P in ascending order.
fn_in_order(P, at) ==
    [j \in 1..Cardinality(P) |->
       at[CHOOSE i \in P : Cardinality({x \in P : x < i}) = j - 1]]

\* re.findall / re.finditer over `data`: the matches left to right.  No
\* match of these patterns can start inside another one (the literal head
\* occurs nowhere in the rest of the pattern), so every position where the
\* pattern matches yields a match.
fn_finditer(s, pre, mid) ==
    fn_in_order({i \in 1..Len(s) : fn_match(s, i, pre, mid).ok},
                [i \in 1..Len(s) |-> fn_match(s, i, pre, mid)])

fn_finditer_split(s) ==
    fn_in_order({i \in 1..Len(s) : fn_match_split(s, i).ok},
                [i \in 1..Len(s) |-> fn_match_split(s, i)])

\* `for match in matches: d[int(index)] = float(value)`.
RECURSIVE fn_fill(_, _)
fn_fill(d, ms) ==
    IF ms = <<>> THEN d
    ELSE fn_fill(DictSet(d, Head(ms).index, Head(ms).value), Tail(ms))

\* file.read(): the lines of the file, each ended by a newline.
RECURSIVE fn_read(_)
fn_read(ls) == IF ls = <<>> THEN "" ELSE Head(ls) \o "\n" \o fn_read(Tail(ls))

fn_NET == "MultiCell_SA_5cells_12BSs"

\* functions.py extract_information, lines 10-29: the two dicts filled from
\* `data`.
fn_extract_information_data(data) ==
    [returned_none |-> FALSE,
     ue_generated |->
        fn_fill(<<>>, fn_finditer(data,
            "scalar " \o fn_NET \o ".server.app[",
            "] cbrGeneratedThroughtput:mean ")),
     ue_received |->
        fn_fill(<<>>, fn_finditer(data,
            "scalar " \o fn_NET \o ".ue[",
            "].app[0] cbrReceivedThroughtput:mean "))]

\* functions.py extract_information, lines 5-35.  `file` is what is on disk
\* at the path: open() raises FileNotFoundError when it does not exist, and
\* lines 31-33 catch it and return (None, None).
fn_extract_information(file) ==
    IF file.exists THEN fn_extract_information_data(fn_read(file.lines))
    ELSE [returned_none |-> TRUE, ue_generated |-> <<>>, ue_received |-> <<>>]

\* line 75: last_split[gnb_index] = [value]
fn_listed(d) == [i \in 1..Len(d) |-> <<d[i][1], <<d[i][2]>>>>]

\* functions.py extract_gnb_information, lines 45-84.
fn_extract_gnb_information_data(data) ==
    [returned_none |-> FALSE,
     gnb_data |->
        fn_fill(<<>>, fn_finditer(data, fn_NET \o ".gnb",
            ".cellularNic.mac CNProcDemandProportion:mean ")),
     gnb_cost |->
        fn_fill(<<>>, fn_finditer(data, fn_NET \o ".gnb",
            ".cellularNic.mac CNProcDemand:mean ")),
     last_split |-> fn_listed(fn_fill(<<>>, fn_finditer_split(data))),
     last_solution |-> <<>>,
     gnb_blocks |->
        fn_fill(<<>>, fn_finditer(data, fn_NET \o ".gnb",
            ".cellularNic.mac avgServedBlocksDl:mean "))]

\* functions.py extract_gnb_information, lines 37-90: five None when the
\* file does not exist (lines 86-88).
fn_extract_gnb_information(file) ==
    IF file.exists THEN fn_extract_gnb_information_data(fn_read(file.lines))
    ELSE [returned_none |-> TRUE, gnb_data |-> <<>>, gnb_cost |-> <<>>,
          last_split |-> <<>>, last_solution |-> <<>>, gnb_blocks |-> <<>>]

\* collect_results.py lines 9-11 and 38.
CONFIG_NAME == "Toy1"

TX_POWERS == <<"6", "16", "26", "36", "46", "56">>

NUM_REPETITIONS_SCRIPT == 10

num_ues_in_sim == 39

\* The number of iterations of the double loop of lines 21-22 that are
\* followed.
MaxRuns == 2

\* The k-th iteration (from 1) of `for tx_power ... for rep ...`.
col_tx_power(k) == TX_POWERS[((k - 1) \div NUM_REPETITIONS_SCRIPT) + 1]

col_rep(k) == (k - 1) % NUM_REPETITIONS_SCRIPT

\* Python's str(int) for the repetitions followed.
RECURSIVE PyStrInt(_)
PyStrInt(n) ==
    IF n < 10 THEN SubSeq("0123456789", n + 1, n + 1)
    ELSE PyStrInt(n \div 10) \o SubSeq("0123456789", (n % 10) + 1, (n % 10) + 1)

\* lines 24-25: sca_filename under RESULTS_BASE_DIR_OMNET.
col_sca_filename(k) ==
    [dir |-> CONFIG_NAME,
     name |-> col_tx_power(k) \o "dBm-" \o PyStrInt(col_rep(k)) \o ".sca"]

\* Python's truth value of a dict that may be None.
col_truthy(returned_none, d) == ~returned_none /\ d # <<>>

\* lines 39-48: the rows of the UEs of one file.
col_ue_rows(k, ue) ==
    [i \in 1..num_ues_in_sim |->
       [Config_Name |-> CONFIG_NAME,
        TXPower |-> col_tx_power(k),
        Repetition |-> col_rep(k),
        UE_Index |-> i - 1,
        UE_Received_Throughput |->
            IF col_truthy(ue.returned_none, ue.ue_received)
            THEN DictGet(ue.ue_received, i - 1, Zero) ELSE Zero,
        UE_Generated_Throughput |->
            IF col_truthy(ue.returned_none, ue.ue_generated)
            THEN DictGet(ue.ue_generated, i - 1, Zero) ELSE Zero]]

\* sum(d.values())
col_sum_values(d) == SeqSum([i \in 1..Len(d) |-> d[i][2]])

\* lines 51-61: the aggregated row of the gNBs, when there is one.
col_gnb_rows(k, gnb) ==
    IF /\ col_truthy(gnb.returned_none, gnb.gnb_data)
       /\ col_truthy(gnb.returned_none, gnb.gnb_cost)
    THEN << [Config_Name |-> CONFIG_NAME,
             TXPower |-> col_tx_power(k),
             Repetition |-> col_rep(k),
             UE_Index |-> "AGGREGATED_GNB_DATA",
             Total_GNB_Demand_Prop |-> col_sum_values(gnb.gnb_data),
             Total_GNB_Demand_GOPS |-> col_sum_values(gnb.gnb_cost),
             Total_GNB_Blocks |->
                 IF col_truthy(gnb.returned_none, gnb.gnb_blocks)
                 THEN col_sum_values(gnb.gnb_blocks) ELSE Zero] >>
    ELSE <<>>

---------------------------------------------------------------------------
(* The result files on disk and the scripts that open them.                *)

\* Value tokens: an integer, a decimal and numbers in scientific notation,
\* signed and unsigned.
ValueTokens == {"-3", "2.5", "1.5e-3", "+4E6"}

\* A file with the throughput of one UE and the demand of one gNB, both
\* written as the token v.
ValueFile(v) ==
    <<"scalar MultiCell_SA_5cells_12BSs.ue[0].app[0] cbrReceivedThroughtput:mean "
        \o v,
      "scalar MultiCell_SA_5cells_12BSs.gnb1.cellularNic.mac CNProcDemand:mean "
        \o v>>

\* What a result file of the Toy1 runs may hold.
CollectContents ==
    { ValueFile(v) : v \in ValueTokens } \cup
    { <<"version 3">>,
      <<"scalar MultiCell_SA_5cells_12BSs.ue[0].app[0] cbrReceivedThroughtput:mean 5",
        "scalar MultiCell_SA_5cells_12BSs.server.app[0] cbrGeneratedThroughtput:mean 8">>,
      <<"scalar MultiCell_SA_5cells_12BSs.ue[1].app[0] cbrReceivedThroughtput:mean 2.5",
        "scalar MultiCell_SA_5cells_12BSs.gnb1.cellularNic.mac CNProcDemandProportion:mean 0.5",
        "scalar MultiCell_SA_5cells_12BSs.gnb1.cellularNic.mac CNProcDemand:mean 50",
        "scalar MultiCell_SA_5cells_12BSs.gnb1.cellularNic.mac avgServedBlocksDl:mean 4",
        "config *.gnb1.cellInfo.placementSolution \"\\\"{\\\\\\\"0\\\\\\\": {\\\\\\\"7\\\\\\\": 0.48}}\\\"\"">> }

\* The file at the k-th expected path: there with some content, or not
\* there.
DiskFiles(k) ==
    { [dir |-> col_sca_filename(k).dir, name |-> col_sca_filename(k).name,
       exists |-> TRUE, lines |-> c] : c \in CollectContents }
    \cup { [dir |-> col_sca_filename(k).dir, name |-> col_sca_filename(k).name,
            exists |-> FALSE, lines |-> <<>>] }

Disks(n) == { d \in [1..n -> UNION { DiskFiles(k) : k \in 1..n }] :
                \A k \in 1..n : d[k] \in DiskFiles(k) }

CollectInit ==
    /\ ParseIdle
    /\ PipeIdle
    /\ raised = "none"
    /\ calc_scn = <<>> /\ calc_df = <<>> /\ ana_args = <<>> /\ ana_em = <<>>
    /\ res_args = <<>> /\ res_agg = <<>> /\ res_table = <<>>
    /\ col_k = 0 /\ col_ue = <<>> /\ col_gnb = <<>>
    /\ all_simulation_data = <<>>
    /\ agg_values = <<>> /\ agg_mean = <<>>
    /\ conv_dbm = <<>> /\ conv_w = <<>>
    /\ RunIdle
    /\ \/ /\ script = "collect_results" /\ pc = "exists"
          /\ disk \in Disks(MaxRuns)
       \/ /\ script \in {"results", "simu5g", "analisar"} /\ pc = "open"
          /\ disk \in Disks(1)

\* Another process removes a result file while a script runs.
env_Unlink ==
    /\ pc \notin {"done", ""}
    /\ \E k \in 1..Len(disk) :
          /\ disk[k].exists
          /\ disk' = [disk EXCEPT ![k] = [@ EXCEPT !.exists = FALSE,
                                                   !.lines = <<>>]]
    /\ UNCHANGED <<parseVars, raised, energyVars, pipeVars, col_k, col_ue,
                   col_gnb, all_simulation_data, aggVars, convVars, runVars>>

\* collect_results.py line 27 (and the loop header): the next expected
\* file is looked up; a missing one is skipped (lines 64-65), and after the
\* last one the list is saved (lines 68-75).
col_Exists ==
    /\ script = "collect_results" /\ pc = "exists"
    /\ IF col_k = Len(disk)
       THEN pc' = "done" /\ col_k' = col_k
       ELSE IF disk[col_k + 1].exists
            THEN pc' = "extract_ue" /\ col_k' = col_k
            ELSE pc' = "exists" /\ col_k' = col_k + 1
    /\ UNCHANGED <<parseVars, raised, script, calc_scn, calc_df, ana_args,
                   ana_em, res_args, res_agg, res_table, pipeVars, disk,
                   col_ue, col_gnb, all_simulation_data, aggVars, convVars, runVars>>

\* line 31
col_ExtractInformation ==
    /\ script = "collect_results" /\ pc = "extract_ue"
    /\ col_ue' = fn_extract_information(disk[col_k + 1])
    /\ pc' = "extract_gnb"
    /\ UNCHANGED <<parseVars, raised, script, calc_scn, calc_df, ana_args,
                   ana_em, res_args, res_agg, res_table, pipeVars, disk,
                   col_k, col_gnb, all_simulation_data, aggVars, convVars, runVars>>

\* line 32
col_ExtractGnbInformation ==
    /\ script = "collect_results" /\ pc = "extract_gnb"
    /\ col_gnb' = fn_extract_gnb_information(disk[col_k + 1])
    /\ pc' = "rows"
    /\ UNCHANGED <<parseVars, raised, script, calc_scn, calc_df, ana_args,
                   ana_em, res_args, res_agg, res_table, pipeVars, disk,
                   col_k, col_ue, all_simulation_data, aggVars, convVars, runVars>>

\* lines 38-61
col_AppendRows ==
    /\ script = "collect_results" /\ pc = "rows"
    /\ all_simulation_data' =
          all_simulation_data \o col_ue_rows(col_k + 1, col_ue)
                              \o col_gnb_rows(col_k + 1, col_gnb)
    /\ col_k' = col_k + 1
    /\ pc' = "exists"
    /\ UNCHANGED <<parseVars, raised, script, calc_scn, calc_df, ana_args,
                   ana_em, res_args, res_agg, res_table, pipeVars, disk,
                   col_ue, col_gnb, aggVars, convVars, runVars>>

\* results.py parse_sca_file(path), lines 50-66, called on a path: open()
\* at line 53 is under no try.
res_Open ==
    /\ script = "results" /\ pc = "open"
    /\ IF disk[1].exists
       THEN res_out' = res_parse_sca_file(disk[1].lines) /\ raised' = raised
       ELSE res_out' = res_out /\ raised' = "FileNotFoundError"
    /\ pc' = "done"
    /\ UNCHANGED <<lines, res_i, sim_i, sim_scalars, sim_attrs, script,
                   calc_scn, calc_df, ana_args, ana_em, res_args, res_agg,
                   res_table, pipeVars, collectVars, aggVars, convVars, runVars>>

\* Simu5G parse_sca_file(path), lines 167-190: open() at line 170 is under
\* no try.
sim_Open ==
    /\ script = "simu5g" /\ pc = "open"
    /\ IF disk[1].exists
       THEN /\ sim_scalars' = sim_parse_sca_file(disk[1].lines).scalars
            /\ sim_attrs' = sim_parse_sca_file(disk[1].lines).attrs
            /\ raised' = raised
       ELSE /\ sim_scalars' = sim_scalars /\ sim_attrs' = sim_attrs
            /\ raised' = "FileNotFoundError"
    /\ pc' = "done"
    /\ UNCHANGED <<lines, res_i, res_out, sim_i, script, calc_scn, calc_df,
                   ana_args, ana_em, res_args, res_agg, res_table, pipeVars,
                   collectVars, aggVars, convVars, runVars>>

\* analisar_sca.py parse_sca(sca), lines 83-117: read_text() at line 84 is
\* under no try.
ana_ReadText ==
    /\ script = "analisar" /\ pc = "open"
    /\ IF disk[1].exists
       THEN ana_rows' = <<ana_parse_sca(disk[1])>> /\ raised' = raised
       ELSE ana_rows' = ana_rows /\ raised' = "FileNotFoundError"
    /\ pc' = "done"
    /\ UNCHANGED <<parseVars, script, calc_scn, calc_df, ana_args, ana_em,
                   res_args, res_agg, res_table, batch, nread, res_rows,
                   res_df, sim_rows, sim_raw_csv, sim_metrics, ana_cfg,
                   ana_json, ana_table, collectVars, aggVars, convVars, runVars>>

CollectNext ==
    \/ env_Unlink
    \/ col_Exists
    \/ col_ExtractInformation
    \/ col_ExtractGnbInformation
    \/ col_AppendRows
    \/ res_Open
    \/ sim_Open
    \/ ana_ReadText

SpecCollect == CollectInit /\ [][CollectNext]_vars

---------------------------------------------------------------------------
(* C15: a parser entry point asked to read a file that is not there       *)
(* raises to its caller, and no data row is built from a placeholder.     *)

\* The entry point that is about to open a file that does not exist.
OpensMissing(entry, k) == entry /\ ~disk[k].exists

\* C15: whenever parse_sca_file (results.py, Simu5G), parse_sca,
\* extract_information or extract_gnb_information is asked to read a file
\* that does not exist, it raises to its caller; and collect_results.py
\* never builds rows from a result that stands for "no file".
C15_MissingFileRaises ==
    [][ /\ OpensMissing(res_Open, 1) => raised' # "none"
        /\ OpensMissing(sim_Open, 1) => raised' # "none"
        /\ OpensMissing(ana_ReadText, 1) => raised' # "none"
        /\ OpensMissing(col_ExtractInformation, col_k + 1) => raised' # "none"
        /\ OpensMissing(col_ExtractGnbInformation, col_k + 1)
               => raised' # "none"
        /\ col_AppendRows
               => ~col_ue.returned_none /\ ~col_gnb.returned_none ]_vars

---------------------------------------------------------------------------
(* C16: the quote-stripping rule of _unquote.                              *)

\* The rule of the specification: one enclosing pair of identical quote
\* characters is removed, any other token is left as it is.
Unquoted(tok) ==
    IF /\ Len(tok) >= 2 /\ Ch(tok, 1) \in {"\"", "'"}
       /\ Ch(tok, Len(tok)) = Ch(tok, 1)
    THEN SubSeq(tok, 2, Len(tok) - 1)
    ELSE tok

\* The lines among ls that parse_sca_file takes for scalar lines.
SimScalarLines(ls) ==
    SelectSeq([j \in 1..Len(ls) |-> Strip(ls[j])],
              LAMBDA l : l # "" /\ ~sim_S_ATTR(l).ok /\ sim_S_SCALAR(l).ok)

\* The lines among ls that parse_sca_file takes for attribute lines.
SimAttrLines(ls) ==
    SelectSeq([j \in 1..Len(ls) |-> Strip(ls[j])],
              LAMBDA l : l # "" /\ sim_S_ATTR(l).ok)

---------------------------------------------------------------------------
(* C17: parse, write back, parse again.                                    *)

\* n zeros.
RECURSIVE Zeros(_)
Zeros(n) == IF n <= 0 THEN "" ELSE "0" \o Zeros(n - 1)

\* Python's repr of the float with the significant digits D and the decimal
\* point after the first decpt of them: fixed notation, or exponent notation
\* when decpt <= -4 or decpt > 16, with an exponent of two digits at least.
ReprDigits(D, decpt) ==
    IF decpt <= -4 \/ decpt > 16
    THEN SubSeq(D, 1, 1)
         \o (IF Len(D) > 1 THEN "." \o SubSeq(D, 2, Len(D)) ELSE "")
         \o "e" \o (IF decpt - 1 < 0 THEN "-" ELSE "+")
         \o (IF Abs(decpt - 1) < 10 THEN "0" ELSE "")
         \o PyStrInt(Abs(decpt - 1))
    ELSE IF decpt <= 0 THEN "0." \o Zeros(-decpt) \o D
    ELSE IF decpt < Len(D)
    THEN SubSeq(D, 1, decpt) \o "." \o SubSeq(D, decpt + 1, Len(D))
    ELSE D \o Zeros(decpt - Len(D)) \o ".0"

\* repr(x) of a float that float() gave for a decimal literal.
PyRepr(x) ==
    IF x.k = "inf" THEN "inf"
    ELSE IF x.k = "ninf" THEN "-inf"
    ELSE IF x.k = "nan" THEN "nan"
    ELSE IF x.n = 0 THEN "0.0"
    ELSE (IF x.n < 0 THEN "-" ELSE "")
         \o ReprDigits(PyStrInt(Abs(x.n)), Len(PyStrInt(Abs(x.n))) + x.e)

HasSpace(tok) == \E i \in 1..Len(tok) : IsSpace(Ch(tok, i))

\* A token written with the optional-quoting rule: in double quotes when it
\* holds a blank, bare otherwise.
WriteToken(tok) == IF HasSpace(tok) THEN "\"" \o tok \o "\"" ELSE tok

\* The line  scalar <module> <name> <value>[ <unit>]  of a record.
WriteScalar(r) ==
    "scalar " \o WriteToken(r.module) \o " " \o WriteToken(r.name) \o " "
        \o PyRepr(r.value)
        \o (IF "unit" \in DOMAIN r /\ r.unit # <<>>
            THEN " " \o r.unit[1] ELSE "")

WriteScalars(recs) == [j \in 1..Len(recs) |-> WriteScalar(recs[j])]

\* The position after the token of the grammar that starts at i: up to the
\* closing quote for a token that opens with a quote which is closed before
\* a blank or the end of the line, else the run of non-blank characters.
GrammarTokenEnd(s, i) ==
    LET ends == {j \in (i + 1)..Len(s) :
                   /\ Ch(s, j) = Ch(s, i)
                   /\ (j = Len(s) \/ IsSpace(Ch(s, j + 1)))}
    IN  IF i <= Len(s) /\ Ch(s, i) \in {"\"", "'"} /\ ends # {}
        THEN Min(ends) + 1
        ELSE SkipNonSpace(s, i)

\* A valid scalar line: the keyword at the start of the line, a module
\* token, a name token, a value token that is an integer, a decimal or a
\* number in scientific notation with an optional sign, and at most one
\* unit token.
IsValidScalarLine(l) ==
    LET w1 == SkipSpace(l, 7)
        m1 == GrammarTokenEnd(l, w1)
        w2 == SkipSpace(l, m1)
        n1 == GrammarTokenEnd(l, w2)
        w3 == SkipSpace(l, n1)
        v1 == SkipNonSpace(l, w3)
        u0 == SkipSpace(l, v1)
        u1 == SkipNonSpace(l, u0)
    IN  /\ StartsWithAt(l, 1, "scalar")
        /\ w1 > 7 /\ m1 > w1 /\ w2 > m1 /\ n1 > w2 /\ w3 > n1 /\ v1 > w3
        /\ sim_NumberEnd(l, w3) = v1
        /\ SkipSpace(l, u1) = Len(l) + 1

SameScalars(a, b) ==
    /\ Len(a) = Len(b)
    /\ \A j \in 1..Len(a) :
          /\ a[j].module = b[j].module
          /\ a[j].name = b[j].name
          /\ a[j].value = b[j].value

\* C17: a file of valid scalar lines gives one record per line, and the
\* records written back as scalar lines and parsed again are records of the
\* same module, name and value, in both parse_sca_file routines.
C17_ParseWriteParseIsTheSame ==
    (lines # <<>> /\ \A j \in 1..Len(lines) : IsValidScalarLine(lines[j]))
      => /\ res_i = Len(lines)
            => /\ Len(res_out) = Len(lines)
               /\ SameScalars(res_parse_sca_file(WriteScalars(res_out)),
                              res_out)
         /\ sim_i = Len(lines)
            => /\ Len(sim_scalars) = Len(lines)
               /\ SameScalars(
                     sim_parse_sca_file(WriteScalars(sim_scalars)).scalars,
                     sim_scalars)

---------------------------------------------------------------------------
(* C18: the value tokens every parser accepts.                             *)

\* The file about to be opened holds the value token v in its two lines.
HoldsValue(file, v) == file.exists /\ file.lines = ValueFile(v)

\* Two records, each with the value x.
TwoRecordsOf(recs, x) ==
    Len(recs) = 2 /\ recs[1].value = x /\ recs[2].value = x

\* C18: a file whose tracked scalar lines carry the value token -3, 2.5,
\* 1.5e-3 or +4E6 gives, in every parser, records and measurements with the
\* number the token denotes: both parse_sca_file routines, parse_sca and
\* extract_information / extract_gnb_information.
C18_EveryParserTakesSignedAndScientificValues ==
    [][ \A v \in ValueTokens :
          /\ (res_Open /\ HoldsValue(disk[1], v))
                => TwoRecordsOf(res_out', ParseFloat(v).v)
          /\ (sim_Open /\ HoldsValue(disk[1], v))
                => TwoRecordsOf(sim_scalars', ParseFloat(v).v)
          /\ (ana_ReadText /\ HoldsValue(disk[1], v))
                => /\ ana_rows'[1].sum_rate_mbps
                        = SeqSum(ana_to_mbps(<<ParseFloat(v).v>>))
                   /\ ana_rows'[1].custo_computacional_gops_soma
                        = ParseFloat(v).v
          /\ (col_ExtractInformation /\ HoldsValue(disk[col_k + 1], v))
                => col_ue'.ue_received = << <<0, ParseFloat(v).v>> >>
          /\ (col_ExtractGnbInformation /\ HoldsValue(disk[col_k + 1], v))
                => col_gnb'.gnb_cost = << <<1, ParseFloat(v).v>> >> ]_vars

---------------------------------------------------------------------------
(* The aggregators called on a collection of values.                       *)

\* The largest number of values in a collection.
MaxValues == 3

\* Values of ordinary size, with the two non-finite values a line can give,
\* and values near the largest double.
AggOrdinary == {Int2F(5), Fin(5, 2), Int2F(-3), PosInf, NaN}

AggHuge == {FinE(1, 1, 308), FinE(-1, 1, 308)}

\* results.py: records of the throughput with the values vals, after a
\* record of another metric.
AggRecords(vals) ==
    <<[module |-> "n.gnb1.cellularNic.phy", name |-> "txPower",
       value |-> Int2F(10), unit |-> <<>>]>>
    \o [i \in 1..Len(vals) |->
          [module |-> "n.ue[0].app[0]", name |-> "cbrReceivedThroughput:mean",
           value |-> vals[i], unit |-> <<>>]]

AggInit ==
    /\ ParseIdle
    /\ PipeIdle
    /\ raised = "none"
    /\ calc_scn = <<>> /\ calc_df = <<>> /\ ana_args = <<>> /\ ana_em = <<>>
    /\ res_args = <<>> /\ res_agg = <<>> /\ res_table = <<>>
    /\ disk = <<>> /\ col_k = 0 /\ col_ue = <<>> /\ col_gnb = <<>>
    /\ all_simulation_data = <<>>
    /\ script \in {"analisar", "results"} /\ pc = "mean"
    /\ agg_values \in SeqsUpTo(AggOrdinary, MaxValues)
                        \cup SeqsUpTo(AggHuge, MaxValues)
    /\ agg_mean = <<>>
    /\ conv_dbm = <<>> /\ conv_w = <<>>
    /\ RunIdle

\* analisar_sca.py: safe_mean(values) with the default 0.0.
ana_SafeMean ==
    /\ script = "analisar" /\ pc = "mean"
    /\ agg_mean' = <<ana_safe_mean(agg_values, Zero)>>
    /\ pc' = "done"
    /\ UNCHANGED <<parseVars, raised, script, calc_scn, calc_df, ana_args,
                   ana_em, res_args, res_agg, res_table, pipeVars,
                   collectVars, agg_values, convVars, runVars>>

\* results.py: agg_metric(records, ALIASES["throughput"]).
res_AggMetric ==
    /\ script = "results" /\ pc = "mean"
    /\ agg_mean' = <<res_agg_metric(AggRecords(agg_values),
                                    res_ALIASES_throughput)>>
    /\ pc' = "done"
    /\ UNCHANGED <<parseVars, raised, script, calc_scn, calc_df, ana_args,
                   ana_em, res_args, res_agg, res_table, pipeVars,
                   collectVars, agg_values, convVars, runVars>>

AggNext == ana_SafeMean \/ res_AggMetric

SpecAgg == AggInit /\ [][AggNext]_vars

---------------------------------------------------------------------------
(* C19: the mean of a collection lies between its extremes.                *)

FLe(x, y) == FLt(x, y) \/ x = y

\* v lies between the least and the greatest of the values vals.
BetweenExtremes(v, vals) ==
    /\ \E i \in 1..Len(vals) : FLe(vals[i], v)
    /\ \E i \in 1..Len(vals) : FLe(v, vals[i])

\* The collection the aggregator averages: safe_mean drops what is not
\* finite, agg_metric takes the values as they are.
Averaged ==
    IF script = "analisar" THEN SelectSeq(agg_values, IsFinite)
    ELSE agg_values

AllFinite(vals) == \A i \in 1..Len(vals) : IsFinite(vals[i])

\* The result for the empty collection: the default 0.0 of safe_mean, the
\* None of agg_metric.
EmptyResult == IF script = "analisar" THEN Zero ELSE None

\* C19 as stated: for every non-empty collection of finite values the mean
\* lies between the least and the greatest value; the empty collection
\* gives the default or None, 0/0 is never evaluated.
C19_MeanBetweenMinAndMax ==
    pc = "done" =>
        /\ Averaged = <<>> => agg_mean = <<EmptyResult>>
        /\ (Averaged # <<>> /\ AllFinite(Averaged))
              => BetweenExtremes(agg_mean[1], Averaged)

\* C19 amended: the same, for the collections whose sum is finite; when the
\* sum of finite values overflows, the mean is inf or -inf.
C19_MeanBetweenMinAndMaxUnlessOverflow ==
    pc = "done" =>
        /\ Averaged = <<>> => agg_mean = <<EmptyResult>>
        /\ (Averaged # <<>> /\ AllFinite(Averaged))
              => IF IsFinite(SeqSum(Averaged))
                 THEN BetweenExtremes(agg_mean[1], Averaged)
                 ELSE IsInf(agg_mean[1])

\* C19 witness: safe_mean has left inf out of 5, inf and 2.5 and averaged
\* the two finite values to 3.75.
C19_Witness ==
    /\ pc = "done"
    /\ script = "analisar"
    /\ agg_values = <<Int2F(5), PosInf, Fin(5, 2)>>
    /\ agg_mean = <<Fin(15, 4)>>

---------------------------------------------------------------------------
(* C20: a higher transmit power gives a higher average power.              *)

\* What compute_power_energy_eff reports for the arguments a at the power
\* p_dbm, everything else unchanged.
AnaAtPower(a, p_dbm) ==
    ana_compute_power_energy_eff(p_dbm, a.proc_sum_gops, a.ue_active_mean,
                                 a.thp_sum_mbps, a.cfg)

AnaGammaPositive(a) == FLt(Zero, DictGet(a.cfg.general, "gamma", Zero))

\* The power levels process_topology may pass.
AnaPowers == {Int2F(30), Int2F(40)}

\* No sensitivity of the extended variant is negative.
NoNegativeSlope(scn) ==
    AllSixSupplied(scn) =>
        ~FLt(scn.k_idle, Zero) /\ ~FLt(scn.k_alpha, Zero)
                               /\ ~FLt(scn.k_beta, Zero)

---------------------------------------------------------------------------
(* dbm_to_watts of calculate.py, results.py and analisar_sca.py called on  *)
(* a power level.                                                          *)

\* float ** float raises OverflowError when the power is above the largest
\* double (10 ** 309.0).
PowOverflows(q) ==
    /\ q.k = "fin" /\ q.d = 1 /\ q.e >= 0
    /\ q.n * Pow10(q.e) > 308

\* What a call of dbm_to_watts gives: the watts, or the exception raised.
calc_dbm_to_watts_call(dbm) ==
    IF PowOverflows(FDiv(dbm, Int2F(10)))
    THEN [raised |-> "OverflowError", w |-> <<>>]
    ELSE [raised |-> "none", w |-> <<calc_dbm_to_watts(dbm)>>]

res_dbm_to_watts_call(dbm) ==
    IF PowOverflows(FDiv(dbm, Int2F(10)))
    THEN [raised |-> "OverflowError", w |-> <<>>]
    ELSE [raised |-> "none", w |-> <<res_dbm_to_watts(dbm)>>]

ana_dbm_to_watts_call(p_dbm) ==
    IF PowOverflows(FDiv(FSub(p_dbm, Int2F(30)), Int2F(10)))
    THEN [raised |-> "OverflowError", w |-> <<>>]
    ELSE [raised |-> "none", w |-> <<ana_dbm_to_watts(p_dbm)>>]

\* Power levels whose watts are a power of ten: every tenth dBm from -300
\* up to the levels whose watts are above the largest double.
ConvLevels == {Int2F(10 * i) : i \in (-30)..313}

ConvInit ==
    /\ ParseIdle
    /\ PipeIdle
    /\ raised = "none"
    /\ calc_scn = <<>> /\ calc_df = <<>> /\ ana_args = <<>> /\ ana_em = <<>>
    /\ res_args = <<>> /\ res_agg = <<>> /\ res_table = <<>>
    /\ disk = <<>> /\ col_k = 0 /\ col_ue = <<>> /\ col_gnb = <<>>
    /\ all_simulation_data = <<>>
    /\ agg_values = <<>> /\ agg_mean = <<>>
    /\ script \in {"calculate", "results", "analisar"} /\ pc = "convert"
    /\ conv_dbm \in ConvLevels
    /\ conv_w = <<>>
    /\ RunIdle

calc_DbmToWatts ==
    /\ script = "calculate" /\ pc = "convert"
    /\ raised' = calc_dbm_to_watts_call(conv_dbm).raised
    /\ conv_w' = calc_dbm_to_watts_call(conv_dbm).w
    /\ pc' = "done"
    /\ UNCHANGED <<parseVars, script, calc_scn, calc_df, ana_args, ana_em,
                   res_args, res_agg, res_table, pipeVars, collectVars,
                   aggVars, conv_dbm, runVars>>

res_DbmToWatts ==
    /\ script = "results" /\ pc = "convert"
    /\ raised' = res_dbm_to_watts_call(conv_dbm).raised
    /\ conv_w' = res_dbm_to_watts_call(conv_dbm).w
    /\ pc' = "done"
    /\ UNCHANGED <<parseVars, script, calc_scn, calc_df, ana_args, ana_em,
                   res_args, res_agg, res_table, pipeVars, collectVars,
                   aggVars, conv_dbm, runVars>>

ana_DbmToWatts ==
    /\ script = "analisar" /\ pc = "convert"
    /\ raised' = ana_dbm_to_watts_call(conv_dbm).raised
    /\ conv_w' = ana_dbm_to_watts_call(conv_dbm).w
    /\ pc' = "done"
    /\ UNCHANGED <<parseVars, script, calc_scn, calc_df, ana_args, ana_em,
                   res_args, res_agg, res_table, pipeVars, collectVars,
                   aggVars, conv_dbm, runVars>>

ConvNext == calc_DbmToWatts \/ res_DbmToWatts \/ ana_DbmToWatts

SpecConv == ConvInit /\ [][ConvNext]_vars

---------------------------------------------------------------------------
(* C21: the conversions from dBm to watts are one function.                *)

\* C21: whichever script's dbm_to_watts was called, it has returned what
\* the dbm_to_watts of each of the three scripts returns for that power
\* level, and that is 0.001 W for 0 dBm, 1.0 W for 30 dBm and 10.0 W for
\* 40 dBm.
C21_ConversionsReturnEqualValues ==
    (pc = "done" /\ conv_dbm # <<>>) =>
        /\ [raised |-> raised, w |-> conv_w] = calc_dbm_to_watts_call(conv_dbm)
        /\ [raised |-> raised, w |-> conv_w] = res_dbm_to_watts_call(conv_dbm)
        /\ [raised |-> raised, w |-> conv_w] = ana_dbm_to_watts_call(conv_dbm)
        /\ conv_dbm = Int2F(0) => conv_w = <<Fin(1, 1000)>>
        /\ conv_dbm = Int2F(30) => conv_w = <<Int2F(1)>>
        /\ conv_dbm = Int2F(40) => conv_w = <<Int2F(10)>>

---------------------------------------------------------------------------
(* C22: the groups of the aggregation are the power levels of the files.   *)

\* The values of a sequence of rows.
ValuesOf(rows) == [i \in 1..Len(rows) |-> rows[i].value]

\* results.py: the values of the throughput records of the files of the
\* batch whose row of df has the power p, in the order of the files.
RECURSIVE ResThroughputsOf(_, _)
ResThroughputsOf(p, n) ==
    IF n = 0 THEN <<>>
    ELSE ResThroughputsOf(p, n - 1)
         \o (IF res_df[n].power_dbm = p
             THEN res_metric_vals(res_parse_sca_file(batch[n].lines),
                      [j \in 1..Len(res_ALIASES_throughput) |->
                         LowerStr(res_ALIASES_throughput[j])])
             ELSE <<>>)

\* Simu5G: the values of the throughput records of the files of the batch
\* with the power p in their path, in the order of the files.
RECURSIVE SimThroughputsOf(_, _)
SimThroughputsOf(p, n) ==
    IF n = 0 THEN <<>>
    ELSE SimThroughputsOf(p, n - 1)
         \o (IF sim_potencia_from_filename(batch[n]) = p
             THEN ValuesOf(sim_family(sim_collect_file(batch[n]),
                                      {"throughput"}))
             ELSE <<>>)

\* The two files of the example: one named after Pot26 with the throughput
\* 5000000, one named after Pot36 with the throughput 7000000.
ExampleBatch ==
    SelectSeq(SampleFiles,
              LAMBDA f : f.name \in {"run_Pot26.sca", "run_Pot36.sca"})

\* results.py was started without --powers and without calibration options.
ResDefaults ==
    /\ res_args.powers = <<Int2F(6), Int2F(16), Int2F(26), Int2F(36),
                           Int2F(46), Int2F(56)>>
    /\ res_args.calib.P_idle_base = Int2F(80)

\* results.py: the rows of the table are the powers of the rows of df, the
\* throughput of a row is the mean of the throughput records of its files,
\* and the example gives 26 and 36 with 5e6 and 7e6 and the higher average
\* power for 36.
GroupsOfResults ==
    (script = "results" /\ pc = "done" /\ raised = "none") =>
        /\ { res_table[i].power_dbm : i \in 1..Len(res_table) }
              = { res_df[j].power_dbm : j \in 1..Len(res_df) } \ {NaN}
        /\ \A i \in 1..Len(res_table) :
               res_table[i].throughput
                   = PdMean(ResThroughputsOf(res_table[i].power_dbm,
                                             Len(batch)))
        /\ (batch = ExampleBatch /\ ResDefaults) =>
               /\ Len(res_table) = 2
               /\ res_table[1].power_dbm = Int2F(26)
               /\ res_table[1].throughput = Int2F(5000000)
               /\ res_table[2].power_dbm = Int2F(36)
               /\ res_table[2].throughput = Int2F(7000000)
               /\ FLt(res_table[1].Pavg_gNB_W, res_table[2].Pavg_gNB_W)

\* Simu5G: the powers of the summary tables are the powers of the files,
\* the mean throughput of a power is the mean of the throughput records of
\* its files, and the example gives 26 and 36 with 5e6 and 7e6.
GroupsOfSimu5G ==
    (script = "simu5g" /\ pc = "done" /\ raised = "none" /\ batch # <<>>) =>
        /\ UNION { { t[i].potencia_dbm : i \in 1..Len(t) } :
                     t \in Range(SimAggregates(sim_metrics)) }
              = { sim_potencia_from_filename(batch[j]) :
                    j \in 1..Len(batch) } \ {NaN}
        /\ \A i \in 1..Len(sim_metrics.thr_mean) :
               sim_metrics.thr_mean[i].value
                   = PdMean(SimThroughputsOf(
                                sim_metrics.thr_mean[i].potencia_dbm,
                                Len(batch)))
        /\ batch = ExampleBatch =>
               sim_metrics.thr_mean
                   = << [potencia_dbm |-> Int2F(26),
                         value |-> Int2F(5000000)],
                        [potencia_dbm |-> Int2F(36),
                         value |-> Int2F(7000000)] >>

\* analisar_sca.py: the powers of the table are the powers of the files,
\* and the example gives 26 and 36 with 5 Mbps and 7 Mbps and, with a
\* configured energy model, the higher average power for 36.
GroupsOfAnalisar ==
    (script = "analisar" /\ pc = "done" /\ raised = "none"
        /\ batch # <<>>) =>
        /\ { ana_table[i].base.potencia_dbm : i \in 1..Len(ana_table) }
              = { ana_infer_power_from_name(batch[j].name) :
                    j \in 1..Len(batch) } \ {None}
        /\ batch = ExampleBatch =>
               /\ Len(ana_table) = 2
               /\ ana_table[1].base.potencia_dbm = Int2F(26)
               /\ ana_table[1].base.vazao_media_mbps = Int2F(5)
               /\ ana_table[2].base.potencia_dbm = Int2F(36)
               /\ ana_table[2].base.vazao_media_mbps = Int2F(7)

\* C22: for any batch of result files, the groups of the aggregation are
\* the distinct power levels resolved from the files, the throughput mean
\* of a group is the mean of the throughput records of the files resolved
\* to its level, and the files named after Pot26 and Pot36 with the
\* throughputs 5000000 and 7000000 give the groups 26 and 36 with the means
\* 5e6 and 7e6 and a higher average power for 36, in each of the three
\* scripts.
C22_GroupsAreTheResolvedPowerLevels ==
    GroupsOfResults /\ GroupsOfSimu5G /\ GroupsOfAnalisar

---------------------------------------------------------------------------
(* C23: scalar lines with a value token that is no number.                 *)

\* A scalar line with unquoted module and name whose value token float()
\* does not take.
IsNonNumericScalarLine(l) ==
    IsPlainScalarLine(l) /\ ~ParseFloat(Tokens(l)[4]).ok

\* A scalar line without indentation, with unquoted module and name, whose
\* value token is a finite number.
IsWellFormedScalarLine(l) ==
    /\ IsPlainScalarLine(l)
    /\ StartsWithAt(l, 1, "scalar")
    /\ ParseFloat(Tokens(l)[4]).ok
    /\ IsFinite(ParseFloat(Tokens(l)[4]).v)

\* The lines ls without the scalar lines whose value token is no number.
WithoutNonNumeric(ls) == SelectSeq(ls, LAMBDA l : ~IsNonNumericScalarLine(l))

\* C23: once a file is read, its records are the records of the file
\* without its scalar lines whose value token is no number, and so is the
\* mean of the throughput; a file of one well-formed scalar line and one
\* line with a non-numeric value has given exactly one record, with a finite
\* value, in both parse_sca_file routines.
C23_NonNumericLinesChangeNothing ==
    /\ res_i = Len(lines) =>
         /\ res_out = res_parse_sca_file(WithoutNonNumeric(lines))
         /\ res_agg_metric(res_out, res_ALIASES_throughput)
              = res_agg_metric(res_parse_sca_file(WithoutNonNumeric(lines)),
                               res_ALIASES_throughput)
    /\ sim_i = Len(lines) =>
         sim_scalars = sim_parse_sca_file(WithoutNonNumeric(lines)).scalars
    /\ (/\ Len(lines) = 2
        /\ \E j \in 1..2 : IsWellFormedScalarLine(lines[j])
        /\ \E j \in 1..2 : IsNonNumericScalarLine(lines[j])) =>
         /\ res_i = 2 => Len(res_out) = 1 /\ IsFinite(res_out[1].value)
         /\ sim_i = 2 =>
              Len(sim_scalars) = 1 /\ IsFinite(sim_scalars[1].value)

---------------------------------------------------------------------------
(* C24: the records of a metric family.                                    *)

\* The lowered name n equals or contains one of the lowered aliases.
HoldsAlias(n, lowered) ==
    \E j \in 1..Len(lowered) : n = lowered[j] \/ Contains(n, lowered[j])

\* The name, compared without case, equals or contains an alias of the
\* family.
BelongsTo(name, aliases) ==
    HoldsAlias(LowerStr(name), [j \in 1..Len(aliases) |-> LowerStr(aliases[j])])

\* The mean of the values of the records of a family, None without one.
FamilyMean(recs, aliases) ==
    res_mean_or_none(
        ValuesOf(SelectSeq(recs, LAMBDA r : BelongsTo(r.name, aliases))))

\* The aggregates of the row are the means of the families of the records.
RowHoldsFamilyMeans(row, recs) ==
    /\ row.throughput = FamilyMean(recs, res_ALIASES_throughput)
    /\ row.sinr = FamilyMean(recs, res_ALIASES_sinr)
    /\ row.cn_procdemand = FamilyMean(recs, res_ALIASES_cn_procdemand)

\* C24: when results.py is done, the aggregate of each family in the row of
\* a file is the mean of exactly the records whose name, compared without
\* case, equals or contains an alias of that family, whatever other
\* families the record belongs to.
C24_FamilyIsTheRecordsHoldingAnAlias ==
    (script = "results" /\ pc = "done") =>
        \A j \in 1..Len(res_rows) :
            RowHoldsFamilyMeans(res_rows[j],
                                res_parse_sca_file(batch[j].lines))

\* C24 witness: the file with SINR 4, avgSinrThroughput 6, THROUGHPUT 8 and
\* rsrp 1 has the throughput (6 + 8) / 2 and the sinr (4 + 6) / 2: the
\* record of both families is counted in each, the record of none in none.
C24_Witness ==
    /\ script = "results" /\ pc = "done"
    /\ \E j \in 1..Len(res_rows) :
           /\ batch[j].name = "20dBm_c.sca"
           /\ res_rows[j].throughput = Int2F(7)
           /\ res_rows[j].sinr = Int2F(5)
           /\ res_rows[j].cn_procdemand = None

---------------------------------------------------------------------------
(* run_simulations.py and Run_Simulations_Simu5G/run_simulations.py: the   *)
(* jobs of a power in a pool of worker processes, each job a loop of       *)
(* attempts, then status.json and failed_runs.json, and in the Simu5G      *)
(* script the next power and at the end the analysis.                      *)

MAX_RETRIES == 3

\* The largest --reps and the largest number of worker processes.
MaxReps == 2
MaxProcesses == 2

\* --tx: one power, or two (Simu5G script).
RunPowerLists == { <<"26">>, <<"26", "36">> }

RunPowers == {"26", "36"}

\* What a run of opp_run does to the expected .sca file: it writes it, it
\* leaves the path as it found it, or it removes an older file and writes
\* none.
SimulatorOutcomes == {"written", "untouched", "removed"}

\* status.json and failed_runs.json are kept as the repetitions of the runs
\* they list, in the order of the list.

\* A file that is not on disk.
AbsentFile == [exists |-> FALSE, runs |-> <<>>, stale |-> FALSE]

\* failed_runs.json as an earlier execution left it.
StaleFailedFile == [exists |-> TRUE, runs |-> <<0>>, stale |-> TRUE]

\* A job that no worker has taken yet.
QueuedJob ==
    [pc |-> "queued", attempt |-> 0, success |-> FALSE, result |-> <<>>,
     invoked |-> 0, made |-> FALSE, seen |-> FALSE]

\* The power being simulated.
RunTx == run_cfg.tx_powers[run_level]

\* A result dict without the log tail and with the attempts counted from one.
run_result_short(tx, rep, attempts, success) ==
    [tx_power_dBm |-> tx, repetition |-> rep, attempts |-> attempts + 1,
     success |-> success, log_tail |-> FALSE]

\* run_job, lines 125-142, and run_simulation, lines 99-116: the result
\* dict; log_tail is set when the job has no success, from the log or with
\* a placeholder.
run_result(tx, rep, attempts, success) ==
    [tx_power_dBm |-> tx, repetition |-> rep, attempts |-> attempts,
     success |-> success, log_tail |-> ~success]

\* The loop condition without its second operand.
run_while_attempts_only(job) == job.attempt < MAX_RETRIES

\* while attempt < MAX_RETRIES and not success
run_while(job) == job.attempt < MAX_RETRIES /\ ~job.success

\* What is at the expected path after a run of the simulator.
run_sca_after(outcome, tx, rep) ==
    CASE outcome = "written" -> run_sca \cup {<<tx, rep>>}
      [] outcome = "removed" -> run_sca \ {<<tx, rep>>}
      [] outcome = "untouched" -> run_sca

\* The jobs a worker process is running.
RunningJobs == {r \in DOMAIN run_jobs : run_jobs[r].pc \in {"while", "opp_run"}}

\* failed = [r for r in results if not r["success"]]
run_failed_of(results) == SelectSeq(results, LAMBDA r : ~r.success)

\* The repetitions of a list of results.
RepsOf(results) == [i \in 1..Len(results) |-> results[i].repetition]

\* Every power is followed by the analysis.
run_after_power_analysis(level, powers) == "analysis"

\* Simu5G script, lines 339 and 371: after a power the loop goes on with the
\* next one, and after the last one comes the analysis.
run_after_power(level, powers) ==
    IF level < Len(powers) THEN "start" ELSE "analysis"

RunInit ==
    /\ ParseIdle
    /\ PipeIdle
    /\ raised = "none"
    /\ calc_scn = <<>> /\ calc_df = <<>> /\ ana_args = <<>> /\ ana_em = <<>>
    /\ res_args = <<>> /\ res_agg = <<>> /\ res_table = <<>>
    /\ disk = <<>> /\ col_k = 0 /\ col_ue = <<>> /\ col_gnb = <<>>
    /\ all_simulation_data = <<>>
    /\ agg_values = <<>> /\ agg_mean = <<>>
    /\ conv_dbm = <<>> /\ conv_w = <<>>
    /\ pc = "start"
    /\ \/ /\ script = "run_simulations"
          /\ run_cfg \in [tx_powers : {<<"26">>}, reps : 0..MaxReps,
                          procs : 1..MaxProcesses, skip_sim : {FALSE}]
       \/ /\ script = "simu5g"
          /\ run_cfg \in [tx_powers : RunPowerLists, reps : 0..MaxReps,
                          procs : 1..MaxProcesses, skip_sim : BOOLEAN]
    /\ run_level = 0
    /\ run_jobs = <<>>
    /\ run_results = <<>>
    /\ run_sca \in { {}, {<<"26", 0>>} }
    /\ run_status = [tx \in RunPowers |-> AbsentFile]
    /\ run_failed \in { [tx \in RunPowers |-> AbsentFile],
                        [tx \in RunPowers |->
                           IF tx = "26" THEN StaleFailedFile
                           ELSE AbsentFile] }
    /\ run_analysis = <<>>

\* Simu5G script, lines 339-347, and run_simulations.py, lines 125-128: the
\* jobs of the next power are handed to a new pool.
main_StartPool ==
    /\ script \in {"run_simulations", "simu5g"}
    /\ pc = "start"
    /\ ~run_cfg.skip_sim
    /\ run_level < Len(run_cfg.tx_powers)
    /\ run_level' = run_level + 1
    /\ run_jobs' = [rep \in 0..(run_cfg.reps - 1) |-> QueuedJob]
    /\ run_results' = <<>>
    /\ pc' = "pool"
    /\ UNCHANGED <<parseVars, raised, script, calc_scn, calc_df, ana_args,
                   ana_em, res_args, res_agg, res_table, pipeVars,
                   collectVars, aggVars, convVars, run_cfg, run_sca,
                   run_status, run_failed, run_analysis>>

\* A free worker process takes the next job of the pool and enters
\* run_job / run_simulation.
pool_StartJob ==
    /\ pc = "pool"
    /\ Cardinality(RunningJobs) < run_cfg.procs
    /\ \E rep \in DOMAIN run_jobs :
          /\ run_jobs[rep].pc = "queued"
          /\ \A r \in DOMAIN run_jobs : r < rep => run_jobs[r].pc # "queued"
          /\ run_jobs' = [run_jobs EXCEPT ![rep].pc = "while"]
    /\ UNCHANGED <<parseVars, raised, energyVars, pipeVars, collectVars,
                   aggVars, convVars, run_cfg, run_level, run_results,
                   run_sca, run_status, run_failed, run_analysis>>

\* run_job, lines 109-118, and run_simulation, lines 84-93: the loop is
\* entered and subprocess.run starts the simulator.
job_SubprocessRun ==
    /\ pc = "pool"
    /\ \E rep \in DOMAIN run_jobs :
          /\ run_jobs[rep].pc = "while"
          /\ run_while(run_jobs[rep])
          /\ run_jobs' = [run_jobs EXCEPT ![rep].pc = "opp_run",
                                          ![rep].invoked = @ + 1,
                                          ![rep].seen = FALSE]
    /\ UNCHANGED <<parseVars, raised, energyVars, pipeVars, collectVars,
                   aggVars, convVars, run_cfg, run_level, run_results,
                   run_sca, run_status, run_failed, run_analysis>>

\* run_job, lines 112-118, and run_simulation, lines 87-93: subprocess.run
\* raises because the simulator cannot be started; the worker process hands
\* the exception to the main process and is free for the next job.
job_SubprocessRaises ==
    /\ pc = "pool"
    /\ \E rep \in DOMAIN run_jobs :
          /\ run_jobs[rep].pc = "while"
          /\ run_while(run_jobs[rep])
          /\ run_jobs' = [run_jobs EXCEPT ![rep].pc = "raised",
                                          ![rep].invoked = @ + 1]
    /\ UNCHANGED <<parseVars, raised, energyVars, pipeVars, collectVars,
                   aggVars, convVars, run_cfg, run_level, run_results,
                   run_sca, run_status, run_failed, run_analysis>>

\* Simu5G script, lines 347-349, and run_simulations.py, lines 128-130: the
\* iterator of the pool raises the exception of a job again, the pool is
\* left, which ends its worker processes, and the script ends there.
main_Reraise ==
    /\ pc = "pool"
    /\ \E rep \in DOMAIN run_jobs : run_jobs[rep].pc = "raised"
    /\ raised' = "OSError"
    /\ pc' = "aborted"
    /\ run_jobs' = <<>>
    /\ run_results' = <<>>
    /\ UNCHANGED <<parseVars, script, calc_scn, calc_df, ana_args,
                   ana_em, res_args, res_agg, res_table, pipeVars,
                   collectVars, aggVars, convVars, run_cfg, run_level,
                   run_sca, run_status, run_failed, run_analysis>>

\* run_job, lines 119-123, and run_simulation, lines 94-118: the simulator
\* has ended; success is whether the expected file exists, the attempt is
\* counted, and run_simulation builds its result dict.
job_CheckSca ==
    /\ pc = "pool"
    /\ \E rep \in DOMAIN run_jobs, outcome \in SimulatorOutcomes :
          /\ run_jobs[rep].pc = "opp_run"
          /\ run_sca' = run_sca_after(outcome, RunTx, rep)
          /\ run_jobs' =
                [run_jobs EXCEPT
                   ![rep].pc = "while",
                   ![rep].success = (<<RunTx, rep>> \in run_sca'),
                   ![rep].attempt = @ + 1,
                   ![rep].made = @ \/ outcome = "written",
                   ![rep].seen = (<<RunTx, rep>> \in run_sca'),
                   ![rep].result =
                       IF script = "run_simulations"
                       THEN <<run_result(RunTx, rep,
                                         run_jobs[rep].attempt + 1,
                                         <<RunTx, rep>> \in run_sca')>>
                       ELSE @]
    /\ UNCHANGED <<parseVars, raised, energyVars, pipeVars, collectVars,
                   aggVars, convVars, run_cfg, run_level, run_results,
                   run_status, run_failed, run_analysis>>

\* run_job, lines 125-144, and run_simulation, line 120: the loop is left
\* and the result returned; the Simu5G script, lines 349-350, and
\* run_simulations.py, lines 130-131: the main process appends it.
job_Return ==
    /\ pc = "pool"
    /\ \E rep \in DOMAIN run_jobs :
          /\ run_jobs[rep].pc = "while"
          /\ ~run_while(run_jobs[rep])
          /\ run_jobs' =
                [run_jobs EXCEPT
                   ![rep].pc = "returned",
                   ![rep].result =
                       IF script = "simu5g"
                       THEN <<run_result(RunTx, rep, run_jobs[rep].attempt,
                                         run_jobs[rep].success)>>
                       ELSE @]
          /\ run_results' = Append(run_results, run_jobs'[rep].result[1])
    /\ UNCHANGED <<parseVars, raised, energyVars, pipeVars, collectVars,
                   aggVars, convVars, run_cfg, run_level, run_sca,
                   run_status, run_failed, run_analysis>>

\* Simu5G script, lines 355-361, and run_simulations.py, lines 139-145:
\* every job of the pool has returned and status.json is written.
main_WriteStatus ==
    /\ pc = "pool"
    /\ \A rep \in DOMAIN run_jobs : run_jobs[rep].pc = "returned"
    /\ run_status' = [run_status EXCEPT ![RunTx] =
                        [exists |-> TRUE, runs |-> RepsOf(run_results),
                         stale |-> FALSE]]
    /\ pc' = "failed"
    /\ UNCHANGED <<parseVars, raised, script, calc_scn, calc_df, ana_args,
                   ana_em, res_args, res_agg, res_table, pipeVars,
                   collectVars, aggVars, convVars, run_cfg, run_level,
                   run_jobs, run_results, run_sca, run_failed, run_analysis>>

\* Simu5G script, lines 354 and 362-366, and run_simulations.py, lines
\* 147-154: failed_runs.json is written if a run failed; then the next
\* power, the analysis, or the end of the script.
main_WriteFailed ==
    /\ pc = "failed"
    /\ run_failed' =
          IF run_failed_of(run_results) # <<>>
          THEN [run_failed EXCEPT ![RunTx] =
                  [exists |-> TRUE,
                   runs |-> RepsOf(run_failed_of(run_results)),
                   stale |-> FALSE]]
          ELSE run_failed
    /\ pc' = IF script = "run_simulations" THEN "done"
             ELSE run_after_power(run_level, run_cfg.tx_powers)
    /\ UNCHANGED <<parseVars, raised, script, calc_scn, calc_df, ana_args,
                   ana_em, res_args, res_agg, res_table, pipeVars,
                   collectVars, aggVars, convVars, run_cfg, run_level,
                   run_jobs, run_results, run_sca, run_status, run_analysis>>

\* Simu5G script, lines 337 and 367-368: --skip-sim.
main_SkipSim ==
    /\ script = "simu5g" /\ pc = "start"
    /\ run_cfg.skip_sim
    /\ pc' = "analysis"
    /\ UNCHANGED <<parseVars, raised, script, calc_scn, calc_df, ana_args,
                   ana_em, res_args, res_agg, res_table, pipeVars,
                   collectVars, aggVars, convVars, runVars>>

\* Simu5G script, lines 371-373: analyze_results over the result
\* directories of all powers.
main_AnalyzeResults ==
    /\ script = "simu5g" /\ pc = "analysis"
    /\ run_analysis' = <<run_cfg.tx_powers>>
    /\ pc' = "done"
    /\ UNCHANGED <<parseVars, raised, script, calc_scn, calc_df, ana_args,
                   ana_em, res_args, res_agg, res_table, pipeVars,
                   collectVars, aggVars, convVars, run_cfg, run_level,
                   run_jobs, run_results, run_sca, run_status, run_failed>>

RunNext ==
    \/ main_StartPool
    \/ pool_StartJob
    \/ job_SubprocessRun
    \/ job_SubprocessRaises
    \/ main_Reraise
    \/ job_CheckSca
    \/ job_Return
    \/ main_WriteStatus
    \/ main_WriteFailed
    \/ main_SkipSim
    \/ main_AnalyzeResults

SpecRun == RunInit /\ [][RunNext]_vars

\* The processes are scheduled and every run of the simulator ends.
SpecRunFair == SpecRun /\ WF_vars(RunNext)

---------------------------------------------------------------------------
(* C25 *)

\* The invocations of a job so far: never more than MAX_RETRIES, one more
\* than the checks made while the simulator runs or could not be started and
\* as many as the checks otherwise, and at least one when the job returns.
JobInvocationsBounded(j) ==
    /\ j.invoked <= MAX_RETRIES
    /\ j.invoked = IF j.pc \in {"opp_run", "raised"} THEN j.attempt + 1
                   ELSE j.attempt
    /\ j.pc = "returned" => j.invoked >= 1

RetryLoopBounded == \A rep \in DOMAIN run_jobs : JobInvocationsBounded(run_jobs[rep])

\* A step of a job that has found its .sca file invokes nothing.
NoInvocationOnceFound ==
    \A rep \in DOMAIN run_jobs :
        (run_jobs[rep].seen /\ run_level' = run_level
           /\ rep \in DOMAIN run_jobs')
        => run_jobs'[rep].invoked = run_jobs[rep].invoked

\* The script has ended, regularly or with the exception of a job.
RunEnded == script \in {"run_simulations", "simu5g"} /\ pc \in {"done", "aborted"}

\* C25: the retry loop of run_job / run_simulation is bounded and ends: every
\* job invokes the simulator at least once and at most MAX_RETRIES times, an
\* attempt starts only after the check of the one before, no invocation
\* follows a check that found the expected .sca file, and the script comes
\* to its end.
C25_RetryLoopIsBoundedAndTerminates ==
    /\ []RetryLoopBounded
    /\ [][NoInvocationOnceFound]_vars
    /\ <>RunEnded

\* A job has returned after a second invocation that produced the file.
C25_Witness ==
    \E rep \in DOMAIN run_jobs :
        /\ run_jobs[rep].pc = "returned"
        /\ run_jobs[rep].invoked = 2
        /\ run_jobs[rep].success

---------------------------------------------------------------------------
(* C26 *)

\* The result r of the job j agrees with what the job did.
ResultAgreesWithHistory(r, j) ==
    /\ r.success <=> j.seen
    /\ r.attempts = j.invoked
    /\ ~r.success => (j.invoked = MAX_RETRIES /\ r.log_tail)

\* The result of the job of a repetition, as the main process received it.
ReceivedResultOf(rep) ==
    SelectSeq(run_results, LAMBDA r : r.repetition = rep)

\* C26: the result returned for a job is consistent with its retry history:
\* success is true exactly when the expected .sca file existed at the check
\* after the last invocation, the attempts field is the number of
\* invocations made, and success is false only after MAX_RETRIES invocations,
\* and then the result has a log_tail entry.
C26_ResultIsConsistentWithRetryHistory ==
    \A rep \in DOMAIN run_jobs :
        run_jobs[rep].pc = "returned"
        => /\ ReceivedResultOf(rep) = run_jobs[rep].result
           /\ run_jobs[rep].result[1].tx_power_dBm = RunTx
           /\ run_jobs[rep].result[1].repetition = rep
           /\ ResultAgreesWithHistory(run_jobs[rep].result[1], run_jobs[rep])

\* A job has returned without success after three invocations while another
\* has returned with success after one.
C26_Witness ==
    \E a, b \in DOMAIN run_jobs :
        /\ run_jobs[a].pc = "returned" /\ run_jobs[b].pc = "returned"
        /\ run_jobs[a].result[1] = run_result(RunTx, a, 3, FALSE)
        /\ run_jobs[b].result[1] = run_result(RunTx, b, 1, TRUE)

---------------------------------------------------------------------------
(* C27 *)

\* C27: a job is reported with success = true only if an invocation of the
\* simulator made by this job in this execution of the script produced the
\* expected .sca file; a file left at the path by an earlier execution does
\* not lead to a success report when the simulator fails on every attempt.
C27_SuccessOnlyFromOwnInvocation ==
    \A rep \in DOMAIN run_jobs :
        (run_jobs[rep].pc = "returned" /\ run_jobs[rep].result[1].success)
        => run_jobs[rep].made

---------------------------------------------------------------------------
(* C28 *)

\* The list holds every repetition index 0..reps-1 exactly once.
EachRepetitionOnce(runs, reps) ==
    /\ Len(runs) = reps
    /\ \A r \in 0..(reps - 1) : \E i \in 1..Len(runs) : runs[i] = r

\* status.json of a power of this execution holds one result per repetition.
StatusHoldsEachRepetitionOnce ==
    \A tx \in RunPowers :
        run_status[tx].exists
        => EachRepetitionOnce(run_status[tx].runs, run_cfg.reps)

\* status.json of the power being simulated is there only when every job of
\* the power has returned.
StatusOnlyAfterAllJobs ==
    (run_level >= 1 /\ run_status[RunTx].exists)
    => \A rep \in DOMAIN run_jobs : run_jobs[rep].pc = "returned"

\* Once the script is past the files of a power, failed_runs.json of the
\* power exists exactly when a run of the power failed, and lists the runs
\* without success.
FailedFileIsTheFailedRuns ==
    (run_level >= 1 /\ pc \in {"start", "analysis", "done"})
    => /\ run_failed[RunTx].exists <=> run_failed_of(run_results) # <<>>
       /\ run_failed[RunTx].exists
          => run_failed[RunTx].runs = RepsOf(run_failed_of(run_results))

\* C28: for every completion order of the pool, status.json of a power holds
\* exactly one result per repetition index, it is written only after all
\* jobs of the power have finished, and after the script failed_runs.json of
\* the power exists if and only if a run of this execution failed, and then
\* lists exactly the runs with success = false.
C28_StatusAndFailedFilesMatchTheRuns ==
    /\ StatusHoldsEachRepetitionOnce
    /\ StatusOnlyAfterAllJobs
    /\ FailedFileIsTheFailedRuns

---------------------------------------------------------------------------
(* C29 *)

\* The powers up to the i-th have their status.json, with every repetition.
PowersCompleted(i) ==
    \A k \in 1..i :
        /\ run_status[run_cfg.tx_powers[k]].exists
        /\ EachRepetitionOnce(run_status[run_cfg.tx_powers[k]].runs,
                              run_cfg.reps)

\* The analysis has begun or is about to.
AnalysisReached == pc = "analysis" \/ run_analysis # <<>>

\* Without --skip-sim the analysis comes after the jobs and the status file
\* of every requested power.
AnalysisAfterAllPowers ==
    (AnalysisReached /\ ~run_cfg.skip_sim)
    => /\ run_level = Len(run_cfg.tx_powers)
       /\ PowersCompleted(Len(run_cfg.tx_powers))
       /\ \A rep \in DOMAIN run_jobs : run_jobs[rep].pc = "returned"

\* The jobs of a power exist only when the pools of the powers before it
\* have completed.
PowersOneAfterAnother == run_level >= 1 => PowersCompleted(run_level - 1)

\* With --skip-sim no job exists, the .sca files stay as they were, and the
\* script ends with the analysis over all requested powers.
SkipSimOnlyAnalyzes ==
    /\ run_cfg.skip_sim
       => (run_level = 0 /\ run_jobs = <<>>
           /\ run_sca \in { {}, {<<"26", 0>>} })
    /\ pc = "done" => run_analysis = <<run_cfg.tx_powers>>
    /\ run_analysis # <<>> => pc = "done"

\* C29: in the Simu5G script the analysis runs last: it starts only after
\* every job of every requested power has finished and its status file is
\* written, the powers are processed one after another, and with --skip-sim
\* no simulator is invoked while the analysis still runs over all requested
\* powers.
C29_AnalysisRunsLast ==
    script = "simu5g"
    => (AnalysisAfterAllPowers /\ PowersOneAfterAnother /\ SkipSimOnlyAnalyzes)

\* The script has ended with the analysis of two powers of two jobs each.
C29_Witness ==
    /\ script = "simu5g" /\ pc = "done"
    /\ run_cfg.tx_powers = <<"26", "36">> /\ run_cfg.reps = 2
    /\ ~run_cfg.skip_sim
    /\ run_analysis = << <<"26", "36">> >>
    /\ Len(run_status["36"].runs) = 2

---------------------------------------------------------------------------
(* C30 *)

\* A transmit power that is already in dBm: between 6 and 56.
IsDbmValue(tx) ==
    /\ IsFinite(tx)
    /\ ~FLt(tx, Int2F(6))
    /\ ~FLt(Int2F(56), tx)

\* The mean of the transmit-power scalars of the records.
TxPowerOf(recs) == res_agg_metric(recs, res_ALIASES_tx_power)

\* The row of a file whose transmit-power scalar is a dBm value has that
\* value as its key.
RowKeepsDbmKey(row, recs) ==
    IsDbmValue(TxPowerOf(recs)) => row.power_dbm = TxPowerOf(recs)

\* C30: infer_power_dbm returns a transmit-power scalar that is already in
\* dBm (about 6..56) unchanged as the experiment key, so a file whose
\* tx-power scalar is 26 gets the key 26.
C30_DbmScalarIsTheKey ==
    (script = "results" /\ pc = "done")
    => \A j \in 1..Len(res_rows) :
           RowKeepsDbmKey(res_rows[j], res_parse_sca_file(batch[j].lines))

====
